---- MODULE Spec2Model ----
(***************************************************************************)
(* The real-time voice bridge of chambers-api: the per-connection handler   *)
(* of the /voice WebSocket route (src/unnamed/part_005) and the upstream    *)
(* OpenAIRealtimeClient it drives (src/unnamed/part_000).                   *)
(*                                                                          *)
(* One step of the model is one callback of the Node event loop run to      *)
(* completion, together with the promise continuations it releases (they    *)
(* are microtasks: they run before the next callback).  The two `ws`        *)
(* sockets, the timers and the clock are the environment: their events are  *)
(* separate actions.                                                        *)
(***************************************************************************)
EXTENDS Integers, Sequences, FiniteSets, TLC

(* ------------------------------ bounds -------------------------------- *)
\* upstream clients one connection may construct (session.start frames that
\* get as far as `new OpenAIRealtimeClient`)
MaxClients == 1
\* the same, where successive sessions are followed
MaxSessions == 2
\* clock advances in one behaviour of the rate limiter
MaxTicks == 2
\* upstream clients of a connection whose timers are followed to their end
MaxTimed == 1
\* events of a connection's life that are followed with their frames
MaxRun == 5
\* upstream clients of a connection whose connects are followed to their end
MaxConnects == 1
\* sessions started on one connection with the timers running
MaxRestarts == 2

(* ------------------------- program constants -------------------------- *)
RATE_LIMIT_PER_SEC == 10
RATE_WINDOW_MS == 1000
SESSION_TIMEOUT_MS == 600000
CONNECT_TIMEOUT_MS == 10000
CLOSE_NORMAL == 1000

AllConns == {"c1", "c2"}
\* the connection the bridge specification follows
BridgeConns == {"c1"}

NoUser == "null"
Users == {"u1", "u2"}
NoItem == "null"

VARIABLES
  \* the program
  conns,                 \* connection id -> the closure state of its handler
  connectionRateLimits,  \* the process-wide Map: connection id -> record
  now,                   \* Date.now()
  \* what the last step did
  out,                   \* connection id -> frames it sent to the client
  upOut,                 \* connection id -> frames it sent upstream
  \* budgets and history
  ticks,                 \* clock advances so far
  endedCount,            \* connection id -> session.ended frames sent so far
  acceptLog,             \* connection id -> when the rate limiter last accepted frames
  runLog                 \* the events so far, each with the frames it sent the client

vars == <<conns, connectionRateLimits, now, out, upOut, ticks, endedCount, acceptLog,
          runLog>>

(* ------------------------------ worlds -------------------------------- *)
\* The handlers are written as functions from world to world, so that the
\* statements of one callback compose in program order.
World == [conns |-> conns, rl |-> connectionRateLimits, out |-> out, upOut |-> upOut]

Fresh == [conns |-> conns, rl |-> connectionRateLimits,
          out |-> [c \in AllConns |-> <<>>], upOut |-> [c \in AllConns |-> <<>>]]

Commit(w) ==
  /\ conns' = w.conns
  /\ connectionRateLimits' = w.rl
  /\ out' = w.out
  /\ upOut' = w.upOut
  /\ now' = now

(* --------------------- OpenAIRealtimeClient (part_000) ---------------- *)
\* ws: this.ws is set; rs: readyState of the socket connect() created (it
\* outlives this.ws = null, its listeners stay registered); cur:
\* currentResponseItemId; promise: the promise connect() returned; ctimer:
\* the connection-timeout timer of connect().
NewClient ==
  [ws |-> TRUE, rs |-> "CONNECTING", isConnected |-> FALSE, cur |-> NoItem,
   promise |-> "pending",
   ctimer |-> [deadline |-> now + CONNECT_TIMEOUT_MS, st |-> "armed"]]

\* close() that leaves the connected flag as it is
closeKeepsConnected(cl) ==
  [cl EXCEPT !.rs = IF cl.ws /\ @ \in {"CONNECTING", "OPEN"} THEN "CLOSING" ELSE @,
             !.ws = FALSE]

\* close() that leaves a socket that is still connecting to connect
closeOnlyOpen(cl) ==
  [cl EXCEPT !.rs = IF cl.ws /\ @ = "OPEN" THEN "CLOSING" ELSE @,
             !.ws = FALSE,
             !.isConnected = FALSE]

\* close(): if (this.ws) { this.ws.close(); this.ws = null } this.isConnected = false
close(cl) ==
  [cl EXCEPT !.rs = IF cl.ws /\ @ \in {"CONNECTING", "OPEN"} THEN "CLOSING" ELSE @,
             !.ws = FALSE,
             !.isConnected = FALSE]

\* send(): only when this.ws is set and its readyState is OPEN
send(w, c, i, message) ==
  LET cl == w.conns[c].clients[i] IN
  IF cl.ws /\ cl.rs = "OPEN"
  THEN [w EXCEPT !.upOut[c] = Append(@, [client |-> i] @@ message)]
  ELSE w

configureSession(w, c, i) ==
  send(w, c, i, [type |-> "session.update", voice |-> "sage"])

sendAudio(w, c, i, base64Audio) ==
  IF ~w.conns[c].clients[i].isConnected THEN w
  ELSE send(w, c, i, [type |-> "input_audio_buffer.append", audio |-> base64Audio])

\* interrupt that clears the input buffer before it cancels the response
interruptClearFirst(w, c, i) ==
  IF ~w.conns[c].clients[i].isConnected THEN w
  ELSE send(send(w, c, i, [type |-> "input_audio_buffer.clear"]), c, i,
            [type |-> "response.cancel"])

interrupt(w, c, i) ==
  IF ~w.conns[c].clients[i].isConnected THEN w
  ELSE send(send(w, c, i, [type |-> "response.cancel"]), c, i,
            [type |-> "input_audio_buffer.clear"])

closeClient(w, c, i) == [w EXCEPT !.conns[c].clients[i] = close(@)]

(* ------------------------ voiceRoutes (part_005) ---------------------- *)
\* A connection record: the variables the route handler closes over.
\* sock is socket.readyState ("NONE" before the route handler has run);
\* openaiClient and sessionTimeout are indexes into clients and timers, 0 for
\* null; timers holds every timer setTimeout created for the session timeout;
\* closeArgs is what socket.close was called with.
NoConn ==
  [sock |-> "NONE", userId |-> NoUser, openaiClient |-> 0, sessionTimeout |-> 0,
   clients |-> <<>>, timers |-> <<>>, closeArgs |-> <<>>]

ErrorFrame(message, code) == [type |-> "error", message |-> message, code |-> code]

\* sendToClient without the readyState test
sendToClientUnchecked(w, c, message) ==
  [w EXCEPT !.out[c] = Append(@, message)]

sendToClient(w, c, message) ==
  IF w.conns[c].sock = "OPEN"
  THEN [w EXCEPT !.out[c] = Append(@, message)]
  ELSE w

\* clearTimeout(sessionTimeout) when the handle is set: the handle is kept
clearSessionTimeout(w, c) ==
  LET t == w.conns[c].sessionTimeout IN
  IF t # 0
  THEN [w EXCEPT !.conns[c].timers[t].st = IF @ = "armed" THEN "cleared" ELSE @]
  ELSE w

closeAttached(w, c) ==
  LET i == w.conns[c].openaiClient IN
  IF i # 0 THEN closeClient(w, c, i) ELSE w

\* the registry cleared instead of the one key deleted
deleteRateLimitAll(w, c) ==
  [w EXCEPT !.rl = [k \in {} |-> w.rl[k]]]

deleteRateLimit(w, c) ==
  [w EXCEPT !.rl = [k \in DOMAIN w.rl \ {c} |-> w.rl[k]]]

socketClose(w, c, reason) ==
  IF w.conns[c].sock = "OPEN"
  THEN [w EXCEPT !.conns[c].sock = "CLOSING",
                 !.conns[c].closeArgs = <<CLOSE_NORMAL, reason>>]
  ELSE w

\* closeConnection that leaves the upstream client as it is
closeConnectionNoUpstream(w, c, reason) ==
  LET w1 == sendToClient(w, c, [type |-> "session.ended", reason |-> reason])
      w2 == clearSessionTimeout(w1, c)
      w4 == deleteRateLimit(w2, c)
  IN  socketClose(w4, c, reason)

closeConnection(w, c, reason) ==
  LET w1 == sendToClient(w, c, [type |-> "session.ended", reason |-> reason])
      w2 == clearSessionTimeout(w1, c)
      w3 == closeAttached(w2, c)
      w4 == deleteRateLimit(w3, c)
  IN  socketClose(w4, c, reason)

\* checkRateLimit that accepts when the connection has no record
checkRateLimitNoRecord(rl, c) ==
  IF c \notin DOMAIN rl THEN [ok |-> TRUE, rl |-> rl]
  ELSE IF now > rl[c].resetAt
       THEN [ok |-> TRUE,
             rl |-> [rl EXCEPT ![c] = [count |-> 1, resetAt |-> now + RATE_WINDOW_MS]]]
  ELSE IF rl[c].count >= RATE_LIMIT_PER_SEC THEN [ok |-> FALSE, rl |-> rl]
  ELSE [ok |-> TRUE, rl |-> [rl EXCEPT ![c].count = @ + 1]]

\* checkRateLimit with the limit test off by one
checkRateLimitOffByOne(rl, c) ==
  IF c \notin DOMAIN rl THEN [ok |-> FALSE, rl |-> rl]
  ELSE IF now > rl[c].resetAt
       THEN [ok |-> TRUE,
             rl |-> [rl EXCEPT ![c] = [count |-> 1, resetAt |-> now + RATE_WINDOW_MS]]]
  ELSE IF rl[c].count > RATE_LIMIT_PER_SEC THEN [ok |-> FALSE, rl |-> rl]
  ELSE [ok |-> TRUE, rl |-> [rl EXCEPT ![c].count = @ + 1]]

\* checkRateLimit that restarts the count and keeps the reset time
checkRateLimitKeepsWindow(rl, c) ==
  IF c \notin DOMAIN rl THEN [ok |-> FALSE, rl |-> rl]
  ELSE IF now > rl[c].resetAt
       THEN [ok |-> TRUE, rl |-> [rl EXCEPT ![c].count = 1]]
  ELSE IF rl[c].count >= RATE_LIMIT_PER_SEC THEN [ok |-> FALSE, rl |-> rl]
  ELSE [ok |-> TRUE, rl |-> [rl EXCEPT ![c].count = @ + 1]]

\* checkRateLimit(): the decision and the registry it leaves
checkRateLimit(rl, c) ==
  IF c \notin DOMAIN rl THEN [ok |-> FALSE, rl |-> rl]
  ELSE IF now > rl[c].resetAt
       THEN [ok |-> TRUE,
             rl |-> [rl EXCEPT ![c] = [count |-> 1, resetAt |-> now + RATE_WINDOW_MS]]]
  ELSE IF rl[c].count >= RATE_LIMIT_PER_SEC THEN [ok |-> FALSE, rl |-> rl]
  ELSE [ok |-> TRUE, rl |-> [rl EXCEPT ![c].count = @ + 1]]

\* app.jwt.verify: the subject of a valid token, NoUser when it throws
verify(token) == IF token \in Users THEN token ELSE NoUser

\* authenticate(): sets userId when the token verifies
authenticate(w, c, token) ==
  IF verify(token) # NoUser
  THEN [w EXCEPT !.conns[c].userId = verify(token)]
  ELSE w

\* auth that reports a bad or missing token and leaves the connection open
HandleAuthLenient(w, c, message) ==
  IF message.token = "none"
  THEN sendToClient(w, c, ErrorFrame("Token required", "AUTH_REQUIRED"))
  ELSE IF verify(message.token) = NoUser
  THEN sendToClient(w, c, ErrorFrame("Invalid token", "AUTH_FAILED"))
  ELSE sendToClient(authenticate(w, c, message.token), c, [type |-> "auth.success"])

\* auth that records the subject and tells the client nothing
HandleAuthSilent(w, c, message) ==
  IF message.token = "none"
  THEN closeConnection(sendToClient(w, c, ErrorFrame("Token required", "AUTH_REQUIRED")),
                       c, "No token provided")
  ELSE IF verify(message.token) = NoUser
  THEN closeConnection(sendToClient(w, c, ErrorFrame("Invalid token", "AUTH_FAILED")),
                       c, "Authentication failed")
  ELSE authenticate(w, c, message.token)

HandleAuth(w, c, message) ==
  IF message.token = "none"
  THEN closeConnection(sendToClient(w, c, ErrorFrame("Token required", "AUTH_REQUIRED")),
                       c, "No token provided")
  ELSE IF verify(message.token) = NoUser
  THEN closeConnection(sendToClient(w, c, ErrorFrame("Invalid token", "AUTH_FAILED")),
                       c, "Authentication failed")
  ELSE sendToClient(authenticate(w, c, message.token), c, [type |-> "auth.success"])

\* session.start that does not close the attached client
HandleSessionStartNoClose(w, c, message) ==
  IF w.conns[c].userId = NoUser
  THEN sendToClient(w, c, ErrorFrame("Not authenticated", "NOT_AUTHENTICATED"))
  ELSE [w EXCEPT !.conns[c].clients = Append(@, NewClient),
                 !.conns[c].openaiClient = Len(w.conns[c].clients) + 1]

\* session.start without the authentication guard
HandleSessionStartNoGuard(w, c, message) ==
  LET w1 == closeAttached(w, c) IN
  [w1 EXCEPT !.conns[c].clients = Append(@, NewClient),
             !.conns[c].openaiClient = Len(w1.conns[c].clients) + 1]

\* case 'session.start' up to the await: the guard, the close of the
\* attached client, the new client and its connect() call
HandleSessionStart(w, c, message) ==
  IF w.conns[c].userId = NoUser
  THEN sendToClient(w, c, ErrorFrame("Not authenticated", "NOT_AUTHENTICATED"))
  ELSE LET w1 == closeAttached(w, c) IN
       [w1 EXCEPT !.conns[c].clients = Append(@, NewClient),
                  !.conns[c].openaiClient = Len(w1.conns[c].clients) + 1]

\* the try branch after `await openaiClient.connect()`
AfterConnectResolved(w, c) ==
  LET w1 == sendToClient(w, c, [type |-> "session.ready", sessionId |-> c]) IN
  [w1 EXCEPT !.conns[c].timers =
                Append(@, [deadline |-> now + SESSION_TIMEOUT_MS, st |-> "armed"]),
             !.conns[c].sessionTimeout = Len(w1.conns[c].timers) + 1]

\* the catch branch announcing a session all the same
AfterConnectRejectedReady(w, c) ==
  sendToClient(sendToClient(w, c, ErrorFrame("Failed to start voice session",
                                             "CONNECTION_FAILED")),
               c, [type |-> "session.ready", sessionId |-> c])

\* the catch branch after `await openaiClient.connect()`
AfterConnectRejected(w, c) ==
  sendToClient(w, c, ErrorFrame("Failed to start voice session", "CONNECTION_FAILED"))

\* audio.chunk that reports NO_SESSION also when the attached client is not
\* connected
HandleAudioChunkStrict(w, c, message) ==
  IF w.conns[c].openaiClient = 0
     \/ ~w.conns[c].clients[w.conns[c].openaiClient].isConnected
  THEN sendToClient(w, c, ErrorFrame("No active session", "NO_SESSION"))
  ELSE IF message.audio # "none"
  THEN sendAudio(w, c, w.conns[c].openaiClient, message.audio)
  ELSE w

\* audio.chunk that renews the session timer (an idle timeout)
HandleAudioChunkSliding(w, c, message) ==
  LET t == w.conns[c].sessionTimeout
      w1 == IF t # 0 /\ w.conns[c].timers[t].st = "armed"
            THEN [w EXCEPT !.conns[c].timers[t].deadline = now + SESSION_TIMEOUT_MS]
            ELSE w
  IN  IF w1.conns[c].openaiClient = 0
      THEN sendToClient(w1, c, ErrorFrame("No active session", "NO_SESSION"))
      ELSE IF message.audio # "none"
      THEN sendAudio(w1, c, w1.conns[c].openaiClient, message.audio)
      ELSE w1

HandleAudioChunk(w, c, message) ==
  IF w.conns[c].openaiClient = 0
  THEN sendToClient(w, c, ErrorFrame("No active session", "NO_SESSION"))
  ELSE IF message.audio # "none"
  THEN sendAudio(w, c, w.conns[c].openaiClient, message.audio)
  ELSE w

\* interrupt that ends the session it interrupts
HandleInterruptEnds(w, c) ==
  IF w.conns[c].openaiClient # 0
  THEN closeConnection(interrupt(w, c, w.conns[c].openaiClient), c, "Interrupted")
  ELSE w

\* interrupt that reports the missing session, as audio.chunk does
HandleInterruptStrict(w, c) ==
  IF w.conns[c].openaiClient # 0
  THEN interrupt(w, c, w.conns[c].openaiClient)
  ELSE sendToClient(w, c, ErrorFrame("No active session", "NO_SESSION"))

HandleInterrupt(w, c) ==
  IF w.conns[c].openaiClient # 0
  THEN interrupt(w, c, w.conns[c].openaiClient)
  ELSE w

\* the switch with an error for the types it does not know
DispatchStrict(w, c, message) ==
  CASE message.type = "auth" -> HandleAuth(w, c, message)
    [] message.type = "session.start" -> HandleSessionStart(w, c, message)
    [] message.type = "audio.chunk" -> HandleAudioChunk(w, c, message)
    [] message.type = "interrupt" -> HandleInterrupt(w, c)
    [] message.type = "session.end" -> closeConnection(w, c, "Client requested end")
    [] OTHER -> sendToClient(w, c, ErrorFrame("Unknown message type", "UNKNOWN_TYPE"))

\* the switch of the message handler
Dispatch(w, c, message) ==
  CASE message.type = "auth" -> HandleAuth(w, c, message)
    [] message.type = "session.start" -> HandleSessionStart(w, c, message)
    [] message.type = "audio.chunk" -> HandleAudioChunk(w, c, message)
    [] message.type = "interrupt" -> HandleInterrupt(w, c)
    [] message.type = "session.end" -> closeConnection(w, c, "Client requested end")
    [] OTHER -> w

\* the message handler with the rate limit check before the parse: a
\* malformed frame is counted
OnMessageCountsMalformed(w, c, message) ==
  IF message.type # "auth"
  THEN LET r == checkRateLimit(w.rl, c)
           w1 == [w EXCEPT !.rl = r.rl]
       IN  IF ~r.ok
           THEN sendToClient(w1, c, ErrorFrame("Rate limit exceeded", "RATE_LIMIT"))
           ELSE IF message.type = "<malformed>"
           THEN sendToClient(w1, c, ErrorFrame("Invalid message format", "INVALID_MESSAGE"))
           ELSE Dispatch(w1, c, message)
  ELSE Dispatch(w, c, message)

\* the message handler without the return after the RATE_LIMIT error
OnMessageNoReturn(w, c, message) ==
  IF message.type = "<malformed>"
  THEN sendToClient(w, c, ErrorFrame("Invalid message format", "INVALID_MESSAGE"))
  ELSE IF message.type # "auth"
  THEN LET r == checkRateLimit(w.rl, c)
           w1 == [w EXCEPT !.rl = r.rl]
       IN  IF ~r.ok
           THEN Dispatch(sendToClient(w1, c, ErrorFrame("Rate limit exceeded", "RATE_LIMIT")),
                         c, message)
           ELSE Dispatch(w1, c, message)
  ELSE Dispatch(w, c, message)

\* the message handler with the rate limit check on every frame, auth too
OnMessageLimitsAuth(w, c, message) ==
  IF message.type = "<malformed>"
  THEN sendToClient(w, c, ErrorFrame("Invalid message format", "INVALID_MESSAGE"))
  ELSE LET r == checkRateLimit(w.rl, c)
           w1 == [w EXCEPT !.rl = r.rl]
       IN  IF ~r.ok
           THEN sendToClient(w1, c, ErrorFrame("Rate limit exceeded", "RATE_LIMIT"))
           ELSE Dispatch(w1, c, message)

\* socket.on('message'): JSON.parse, the rate limit check, the switch, and
\* the catch of the whole body
OnMessage(w, c, message) ==
  IF message.type = "<malformed>"
  THEN sendToClient(w, c, ErrorFrame("Invalid message format", "INVALID_MESSAGE"))
  ELSE IF message.type # "auth"
  THEN LET r == checkRateLimit(w.rl, c)
           w1 == [w EXCEPT !.rl = r.rl]
       IN  IF ~r.ok
           THEN sendToClient(w1, c, ErrorFrame("Rate limit exceeded", "RATE_LIMIT"))
           ELSE Dispatch(w1, c, message)
  ELSE Dispatch(w, c, message)

\* socket.on('close')
OnSocketClose(w, c) ==
  deleteRateLimit(closeAttached(clearSessionTimeout(w, c), c), c)

(* -------------- callbacks the bridge hands to the client -------------- *)
onAudioDelta(w, c, audio, itemId) ==
  sendToClient(w, c, [type |-> "audio.chunk", audio |-> audio, itemId |-> itemId])

onAudioDone(w, c, itemId) ==
  sendToClient(w, c, [type |-> "audio.done", itemId |-> itemId])

onTranscriptDelta(w, c, text, itemId) ==
  sendToClient(w, c, [type |-> "transcript.delta", text |-> text, itemId |-> itemId])

onTranscriptDone(w, c, text, itemId) ==
  sendToClient(w, c, [type |-> "transcript.done", text |-> text, itemId |-> itemId])

onUserSpeechStarted(w, c) == sendToClient(w, c, [type |-> "user.speech_started"])

onUserSpeechStopped(w, c) == sendToClient(w, c, [type |-> "user.speech_stopped"])

\* onError that ends the session
onErrorTerminates(w, c, errorMessage) ==
  closeConnection(sendToClient(w, c, ErrorFrame(errorMessage, "OPENAI_ERROR")),
                  c, "Upstream error")

\* onError: the upstream error's own message goes to the client
onError(w, c, errorMessage) ==
  sendToClient(w, c, ErrorFrame(errorMessage, "OPENAI_ERROR"))

onClose(w, c) ==
  sendToClient(w, c, [type |-> "session.ended", reason |-> "OpenAI connection closed"])

(* ----------------- OpenAIRealtimeClient: event handlers --------------- *)
\* the recorded item id preferred to the event's own
ResolveItemIdCurrentFirst(cl, m) ==
  IF cl.cur # NoItem THEN cl.cur
  ELSE IF m.item_id # "none" THEN m.item_id
  ELSE "unknown"

\* message.item_id || this.currentResponseItemId || 'unknown'
ResolveItemId(cl, m) ==
  IF m.item_id # "none" THEN m.item_id
  ELSE IF cl.cur # NoItem THEN cl.cur
  ELSE "unknown"

\* a decode failure reported through the error callback
decodeFailedReports(w, c, i) == onError(w, c, "Unexpected token")

\* the catch of handleMessage(): JSON.parse threw, the error is logged
decodeFailed(w, c, i) == w

\* handleMessage() whose response.done leaves the current item id as it is
handleMessageKeepsItem(w, c, i, m) ==
  LET cl == w.conns[c].clients[i]
      id == ResolveItemId(cl, m)
  IN
  IF m.type = "<malformed>" THEN decodeFailed(w, c, i) ELSE
  CASE m.type = "input_audio_buffer.speech_started" -> onUserSpeechStarted(w, c)
    [] m.type = "input_audio_buffer.speech_stopped" -> onUserSpeechStopped(w, c)
    [] m.type = "response.output_item.added" ->
         IF m.item.type = "message"
         THEN [w EXCEPT !.conns[c].clients[i].cur = m.item.id]
         ELSE w
    [] m.type = "response.audio.delta" ->
         IF m.data # "none" THEN onAudioDelta(w, c, m.data, id) ELSE w
    [] m.type = "response.audio.done" -> onAudioDone(w, c, id)
    [] m.type = "response.audio_transcript.delta" ->
         IF m.data # "none" THEN onTranscriptDelta(w, c, m.data, id) ELSE w
    [] m.type = "response.audio_transcript.done" ->
         IF m.data # "none" THEN onTranscriptDone(w, c, m.data, id) ELSE w
    [] m.type = "error" ->
         onError(w, c, IF m.data # "none" THEN m.data ELSE "Unknown OpenAI error")
    [] OTHER -> w

\* handleMessage(): m.data stands for delta, transcript and error.message,
\* "none" when the field is missing
handleMessage(w, c, i, m) ==
  LET cl == w.conns[c].clients[i]
      id == ResolveItemId(cl, m)
  IN
  IF m.type = "<malformed>" THEN decodeFailed(w, c, i) ELSE
  CASE m.type = "input_audio_buffer.speech_started" -> onUserSpeechStarted(w, c)
    [] m.type = "input_audio_buffer.speech_stopped" -> onUserSpeechStopped(w, c)
    [] m.type = "response.output_item.added" ->
         IF m.item.type = "message"
         THEN [w EXCEPT !.conns[c].clients[i].cur = m.item.id]
         ELSE w
    [] m.type = "response.audio.delta" ->
         IF m.data # "none" THEN onAudioDelta(w, c, m.data, id) ELSE w
    [] m.type = "response.audio.done" -> onAudioDone(w, c, id)
    [] m.type = "response.audio_transcript.delta" ->
         IF m.data # "none" THEN onTranscriptDelta(w, c, m.data, id) ELSE w
    [] m.type = "response.audio_transcript.done" ->
         IF m.data # "none" THEN onTranscriptDone(w, c, m.data, id) ELSE w
    [] m.type = "response.done" -> [w EXCEPT !.conns[c].clients[i].cur = NoItem]
    [] m.type = "error" ->
         onError(w, c, IF m.data # "none" THEN m.data ELSE "Unknown OpenAI error")
    [] OTHER -> w

\* reject() whose rejection nobody handles
rejectDropped(w, c, i) ==
  IF w.conns[c].clients[i].promise = "pending"
  THEN [w EXCEPT !.conns[c].clients[i].promise = "rejected"]
  ELSE w

\* resolve() and reject() of connect()'s promise: a settled promise stays as
\* it is; settling it releases the rest of the session.start handler
resolve(w, c, i) ==
  IF w.conns[c].clients[i].promise = "pending"
  THEN AfterConnectResolved([w EXCEPT !.conns[c].clients[i].promise = "resolved"], c)
  ELSE w

reject(w, c, i) ==
  IF w.conns[c].clients[i].promise = "pending"
  THEN AfterConnectRejected([w EXCEPT !.conns[c].clients[i].promise = "rejected"], c)
  ELSE w

\* the open handler without the session configuration
OnOpenNoConfigure(w, c, i) ==
  resolve([w EXCEPT !.conns[c].clients[i].isConnected = TRUE], c, i)

\* ws.on('open')
OnOpen(w, c, i) ==
  LET w1 == [w EXCEPT !.conns[c].clients[i].isConnected = TRUE] IN
  resolve(configureSession(w1, c, i), c, i)

\* ws.on('error')
OnWsError(w, c, i, errorMessage) ==
  LET w1 == onError(w, c, errorMessage) IN
  IF ~w1.conns[c].clients[i].isConnected THEN reject(w1, c, i) ELSE w1

\* ws.on('close')
OnWsClose(w, c, i) ==
  onClose([w EXCEPT !.conns[c].clients[i].isConnected = FALSE], c)

\* the connection-timeout callback without the test of isConnected
OnConnectTimeoutAlways(w, c, i) ==
  LET pending == w.conns[c].clients[i].promise = "pending"
      w1 == [w EXCEPT !.conns[c].clients[i].promise = IF pending THEN "rejected" ELSE @]
      w2 == closeClient(w1, c, i)
  IN  IF pending THEN AfterConnectRejected(w2, c) ELSE w2

\* the connection-timeout callback of connect(): reject, then this.close();
\* the rejection's continuation runs after the callback
OnConnectTimeout(w, c, i) ==
  IF ~w.conns[c].clients[i].isConnected
  THEN LET pending == w.conns[c].clients[i].promise = "pending"
           w1 == [w EXCEPT !.conns[c].clients[i].promise =
                              IF pending THEN "rejected" ELSE @]
           w2 == closeClient(w1, c, i)
       IN  IF pending THEN AfterConnectRejected(w2, c) ELSE w2
  ELSE w

(* ------------------------------- inputs ------------------------------- *)
Frame(type, token, audio) == [type |-> type, token |-> token, audio |-> audio]

\* what a client may send: token "none" is a missing token, "bad" one that
\* fails verification, a user's name a valid token of that user
ClientFrames ==
  {Frame("auth", t, "none") : t \in {"none", "bad"} \cup Users}
    \cup {Frame("audio.chunk", "none", a) : a \in {"none", "a1"}}
    \cup {Frame(t, "none", "none") :
            t \in {"session.start", "interrupt", "session.end", "unknown", "<malformed>"}}

UpMsg(type, item_id, data, item) ==
  [type |-> type, item_id |-> item_id, data |-> data, item |-> item]

NoItemField == [type |-> "none", id |-> "none"]

\* what the upstream may send
UpstreamMessages ==
  {UpMsg(t, id, d, NoItemField) :
     t \in {"response.audio.delta", "response.audio_transcript.delta",
            "response.audio_transcript.done"},
     id \in {"none", "e1"}, d \in {"none", "d1"}}
    \cup {UpMsg("response.audio.done", id, "none", NoItemField) : id \in {"none", "e1"}}
    \cup {UpMsg("response.output_item.added", "none", "none", it) :
            it \in {[type |-> "message", id |-> "r1"], [type |-> "message", id |-> "r2"],
                    [type |-> "function_call", id |-> "r3"]}}
    \cup {UpMsg("error", "none", d, NoItemField) : d \in {"none", "upstream text"}}
    \cup {UpMsg(t, "none", "none", NoItemField) :
            t \in {"session.created", "input_audio_buffer.speech_started",
                   "input_audio_buffer.speech_stopped", "response.done",
                   "unknown", "<malformed>"}}

WsErrors == {"socket hang up"}

(* ------------------------------- actions ------------------------------ *)
EmptyOut == [c \in AllConns |-> <<>>]

\* Every action takes, as its last argument, what the step does to the
\* budgets and histories (hist): they are no part of the program.

\* the route handler: a new connection with its rate limit record
Accept(c, hist) ==
  /\ conns[c].sock = "NONE"
  /\ Commit([Fresh EXCEPT
        !.conns[c] = [NoConn EXCEPT !.sock = "OPEN"],
        !.rl = [k \in DOMAIN Fresh.rl \cup {c} |->
                  IF k = c THEN [count |-> 0, resetAt |-> now + RATE_WINDOW_MS]
                  ELSE Fresh.rl[k]]])
  /\ hist

\* a frame from the client.  After socket.close() the socket is CLOSING and
\* still delivers the frames that arrive before the close handshake ends.
\* maxClients bounds the clients the connection constructs.
Message(c, m, maxClients, hist) ==
  /\ conns[c].sock \in {"OPEN", "CLOSING"}
  /\ LET w == OnMessage(Fresh, c, m) IN
     /\ Len(w.conns[c].clients) <= maxClients
     /\ Commit(w)
  /\ hist

\* the client socket's 'close' event: readyState is CLOSED when it is emitted
SocketClosed(c, hist) ==
  /\ conns[c].sock \in {"OPEN", "CLOSING"}
  /\ Commit(OnSocketClose([Fresh EXCEPT !.conns[c].sock = "CLOSED"], c))
  /\ hist

\* a session timer fires: closeConnection('Session timeout')
SessionTimerFires(c, t, hist) ==
  /\ t \in 1..Len(conns[c].timers)
  /\ conns[c].timers[t].st = "armed"
  /\ now >= conns[c].timers[t].deadline
  /\ Commit(closeConnection([Fresh EXCEPT !.conns[c].timers[t].st = "fired"],
                            c, "Session timeout"))
  /\ hist

Clients(c) == 1..Len(conns[c].clients)

\* the upstream socket opens
UpstreamOpen(c, i, hist) ==
  /\ i \in Clients(c)
  /\ conns[c].clients[i].rs = "CONNECTING"
  /\ Commit(OnOpen([Fresh EXCEPT !.conns[c].clients[i].rs = "OPEN"], c, i))
  /\ hist

\* a frame from the upstream: delivered while the socket is open, and while
\* it is closing after having been open
UpstreamMessage(c, i, m, hist) ==
  /\ i \in Clients(c)
  /\ \/ conns[c].clients[i].rs = "OPEN"
     \/ conns[c].clients[i].rs = "CLOSING" /\ conns[c].clients[i].promise = "resolved"
  /\ Commit(handleMessage(Fresh, c, i, m))
  /\ hist

\* the upstream socket reports an error: it is on its way to closed then
UpstreamError(c, i, e, hist) ==
  /\ i \in Clients(c)
  /\ conns[c].clients[i].rs \in {"CONNECTING", "OPEN", "CLOSING"}
  /\ Commit(OnWsError([Fresh EXCEPT !.conns[c].clients[i].rs = "CLOSING"], c, i, e))
  /\ hist

\* the upstream socket's 'close' event, whoever closed it; a socket that
\* fails to connect reports the error first
UpstreamClosed(c, i, hist) ==
  /\ i \in Clients(c)
  /\ conns[c].clients[i].rs \in {"OPEN", "CLOSING"}
  /\ Commit(OnWsClose([Fresh EXCEPT !.conns[c].clients[i].rs = "CLOSED"], c, i))
  /\ hist

\* the connection-timeout timer of connect() fires
ConnectTimeout(c, i, hist) ==
  /\ i \in Clients(c)
  /\ conns[c].clients[i].ctimer.st = "armed"
  /\ now >= conns[c].clients[i].ctimer.deadline
  /\ Commit(OnConnectTimeout([Fresh EXCEPT !.conns[c].clients[i].ctimer.st = "fired"],
                             c, i))
  /\ hist

\* the instants at which a rate limit window ends, and the first instant
\* after each
WindowEnds ==
  UNION {{connectionRateLimits[c].resetAt, connectionRateLimits[c].resetAt + 1} :
           c \in DOMAIN connectionRateLimits}

\* the deadlines of the armed timers
Deadlines ==
  UNION {{conns[c].timers[t].deadline :
            t \in {u \in 1..Len(conns[c].timers) : conns[c].timers[u].st = "armed"}} :
         c \in AllConns}
    \cup UNION {{conns[c].clients[i].ctimer.deadline :
                   i \in {j \in Clients(c) : conns[c].clients[j].ctimer.st = "armed"}} :
                c \in AllConns}

\* The clock advances to the next instant of interest.  A timer fires at its
\* deadline: the clock does not pass the deadline of an armed timer.
Tick(targets, hist) ==
  /\ \E t \in targets :
       /\ t > now
       /\ \A d \in Deadlines : t <= d
       /\ now' = t
  /\ out' = EmptyOut
  /\ upOut' = EmptyOut
  /\ UNCHANGED <<conns, connectionRateLimits>>
  /\ hist

(* ----------------------- budgets and histories ------------------------ *)
CountEnded(s) == Cardinality({i \in 1..Len(s) : s[i].type = "session.ended"})

\* the history of session.ended frames follows what the step sent
Sent ==
  /\ endedCount' = [c \in AllConns |-> endedCount[c] + CountEnded(out'[c])]
  /\ UNCHANGED <<ticks, acceptLog, runLog>>

\* the last n elements of s
LastN(s, n) == IF Len(s) <= n THEN s ELSE SubSeq(s, Len(s) - n + 1, Len(s))

\* the rate limiter observed on a frame of c: the log keeps the instants of
\* the frames it accepted, the last RATE_LIMIT_PER_SEC + 1 of them
Limited(c, m) ==
  /\ acceptLog' =
       IF m.type \notin {"auth", "<malformed>"} /\ checkRateLimit(connectionRateLimits, c).ok
       THEN [acceptLog EXCEPT ![c] = LastN(Append(@, now), RATE_LIMIT_PER_SEC + 1)]
       ELSE acceptLog
  /\ UNCHANGED <<ticks, endedCount, runLog>>

\* nothing observed
Quiet == UNCHANGED <<ticks, endedCount, acceptLog, runLog>>

\* a step of the clock, within the budget
Budget(maxTicks) ==
  /\ ticks < maxTicks
  /\ ticks' = ticks + 1
  /\ UNCHANGED <<endedCount, acceptLog, runLog>>

\* an event of the run log: what happened (a frame m, or an event of upstream
\* client i) and the frames the step sent the client
NoFrame == Frame("none", "none", "none")

Event(ev, m, i, sent) == [ev |-> ev, m |-> m, i |-> i, sent |-> sent]

\* an upstream frame as an event
UpEvent(m, i, sent) ==
  [ev |-> "upstream message", m |-> NoFrame, i |-> i, sent |-> sent, up |-> m]

IsItemAdded(e) ==
  e.up.type = "response.output_item.added" /\ e.up.item.type = "message"

IsResponseDone(e) == e.up.type = "response.done"

Max(S) == CHOOSE x \in S : \A y \in S : y <= x

\* the elements of s at the indexes in S, in their order
At(s, S) ==
  LET f[k \in 0..Len(s)] ==
        IF k = 0 THEN <<>> ELSE IF k \in S THEN Append(f[k - 1], s[k]) ELSE f[k - 1]
  IN  f[Len(s)]

\* of a log of upstream frames, what the item ids depend on: the last
\* output_item.added of kind message, the last response.done after it, and
\* the last frame
Digest(s) ==
  LET A == {k \in 1..Len(s) : IsItemAdded(s[k])}
      a == IF A = {} THEN 0 ELSE Max(A)
      D == {k \in 1..Len(s) : IsResponseDone(s[k]) /\ k > a}
      d == IF D = {} THEN 0 ELSE Max(D)
  IN  At(s, {a, d, Len(s)})

\* the upstream frame m of client i is logged, in digest
Decoded(c, i, m) ==
  /\ runLog' = Digest(Append(runLog, UpEvent(m, i, out'[c])))
  /\ UNCHANGED <<ticks, endedCount, acceptLog>>

\* the step is logged, within the budget
Logged(c, ev, m, i, maxRun) ==
  /\ Len(runLog) < maxRun
  /\ runLog' = Append(runLog, Event(ev, m, i, out'[c]))
  /\ UNCHANGED <<ticks, endedCount, acceptLog>>

(* --------------------------- specifications --------------------------- *)
Init ==
  /\ conns = [c \in AllConns |-> NoConn]
  /\ connectionRateLimits = [c \in {} |-> [count |-> 0, resetAt |-> 0]]
  /\ now = 0
  /\ out = EmptyOut
  /\ upOut = EmptyOut
  /\ ticks = 0
  /\ endedCount = [c \in AllConns |-> 0]
  /\ acceptLog = [c \in AllConns |-> <<>>]
  /\ runLog = <<>>

\* The bridge: one connection, every frame type, the upstream events that
\* reach the client, the timers and the clock.
BridgeFrames ==
  {Frame("auth", t, "none") : t \in {"none", "bad", "u1"}}
    \cup {Frame("audio.chunk", "none", "a1")}
    \cup {Frame(t, "none", "none") :
            t \in {"session.start", "interrupt", "session.end", "unknown", "<malformed>"}}

BridgeUpstream ==
  {UpMsg("response.audio.delta", "e1", "d1", NoItemField),
   UpMsg("error", "none", "upstream text", NoItemField)}

Next ==
  \/ \E c \in BridgeConns : Accept(c, Sent)
  \/ \E c \in BridgeConns, m \in BridgeFrames : Message(c, m, MaxClients, Sent)
  \/ \E c \in BridgeConns : SocketClosed(c, Sent)
  \/ \E c \in BridgeConns, t \in 1..MaxClients : SessionTimerFires(c, t, Sent)
  \/ \E c \in BridgeConns, i \in 1..MaxClients : UpstreamOpen(c, i, Sent)
  \/ \E c \in BridgeConns, i \in 1..MaxClients, m \in BridgeUpstream :
       UpstreamMessage(c, i, m, Sent)
  \/ \E c \in BridgeConns, i \in 1..MaxClients, e \in WsErrors : UpstreamError(c, i, e, Sent)
  \/ \E c \in BridgeConns, i \in 1..MaxClients : UpstreamClosed(c, i, Sent)
  \/ \E c \in BridgeConns, i \in 1..MaxClients : ConnectTimeout(c, i, Sent)
  \/ Tick(Deadlines, Sent)

Spec == Init /\ [][Next]_vars

\* Successive sessions on one connection: the same steps without the clock
\* (no timer fires), for more upstream clients.
NextSessions ==
  \/ \E c \in BridgeConns : Accept(c, Sent)
  \/ \E c \in BridgeConns, m \in BridgeFrames : Message(c, m, MaxSessions, Sent)
  \/ \E c \in BridgeConns : SocketClosed(c, Sent)
  \/ \E c \in BridgeConns, i \in 1..MaxSessions : UpstreamOpen(c, i, Sent)
  \/ \E c \in BridgeConns, i \in 1..MaxSessions, m \in BridgeUpstream :
       UpstreamMessage(c, i, m, Sent)
  \/ \E c \in BridgeConns, i \in 1..MaxSessions, e \in WsErrors :
       UpstreamError(c, i, e, Sent)
  \/ \E c \in BridgeConns, i \in 1..MaxSessions : UpstreamClosed(c, i, Sent)

SpecSessions == Init /\ [][NextSessions]_vars

\* The rate limiter of one connection: the frames that need no session, the
\* cleanup, and the clock at the ends of the windows.
RateFrames ==
  {Frame("auth", "bad", "none"), Frame("audio.chunk", "none", "a1")}
    \cup {Frame(t, "none", "none") : t \in {"unknown", "session.end", "<malformed>"}}

NextRate ==
  \/ \E c \in BridgeConns : Accept(c, Quiet)
  \/ \E c \in BridgeConns, m \in RateFrames : Message(c, m, 0, Limited(c, m))
  \/ \E c \in BridgeConns : SocketClosed(c, Quiet)
  \/ Tick(WindowEnds, Budget(MaxTicks))

SpecRate == Init /\ [][NextRate]_vars

\* Two connections side by side at the rate limiter: a frame it counts, and
\* the two frames that run the cleanup (auth is exempt from the limiter).
SiblingFrames ==
  {Frame("auth", "bad", "none"), Frame("unknown", "none", "none"),
   Frame("session.end", "none", "none")}

NextSiblings ==
  \/ \E c \in AllConns : Accept(c, Quiet)
  \/ \E c \in AllConns, m \in SiblingFrames : Message(c, m, 0, Quiet)
  \/ \E c \in AllConns : SocketClosed(c, Quiet)
  \/ Tick(WindowEnds, Budget(MaxTicks))

SpecSiblings == Init /\ [][NextSiblings]_vars

\* A timed session under activity: the frames of a session's life, with the
\* timers and the clock running (a timer whose deadline has come fires, and
\* the clock goes on to the next deadline).
TimerFrames ==
  {Frame("auth", "u1", "none"), Frame("session.start", "none", "none"),
   Frame("audio.chunk", "none", "a1"), Frame("interrupt", "none", "none"),
   Frame("session.end", "none", "none")}

TimerUpstream == {UpMsg("response.audio.delta", "e1", "d1", NoItemField)}

NextTimers ==
  \/ \E c \in BridgeConns : Accept(c, Sent)
  \/ \E c \in BridgeConns, m \in TimerFrames : Message(c, m, MaxTimed, Sent)
  \/ \E c \in BridgeConns : SocketClosed(c, Sent)
  \/ \E c \in BridgeConns, t \in 1..MaxTimed : SessionTimerFires(c, t, Sent)
  \/ \E c \in BridgeConns, i \in 1..MaxTimed : UpstreamOpen(c, i, Sent)
  \/ \E c \in BridgeConns, i \in 1..MaxTimed, m \in TimerUpstream :
       UpstreamMessage(c, i, m, Sent)
  \/ \E c \in BridgeConns, i \in 1..MaxTimed : UpstreamClosed(c, i, Sent)
  \/ \E c \in BridgeConns, i \in 1..MaxTimed : ConnectTimeout(c, i, Sent)
  \/ Tick(Deadlines, Sent)

FairTimers ==
  /\ WF_vars(Tick(Deadlines, Sent))
  /\ \A c \in BridgeConns, i \in 1..MaxTimed :
       /\ WF_vars(ConnectTimeout(c, i, Sent))
       /\ WF_vars(SessionTimerFires(c, i, Sent))

SpecTimers == Init /\ [][NextTimers]_vars /\ FairTimers

\* Authentication: every auth frame, of either user, and two frames the
\* limiter counts.
AuthFrames ==
  {Frame("auth", t, "none") : t \in {"none", "bad"} \cup Users}

NextAuth ==
  \/ \E c \in BridgeConns : Accept(c, Quiet)
  \/ \E c \in BridgeConns,
        m \in AuthFrames \cup {Frame("unknown", "none", "none"),
                               Frame("audio.chunk", "none", "a1")} :
       Message(c, m, 0, Quiet)
  \/ \E c \in BridgeConns : SocketClosed(c, Quiet)

SpecAuth == Init /\ [][NextAuth]_vars

\* The life of one connection, event by event, with the frames each event
\* sent the client.
RunFrames ==
  {Frame("auth", "u1", "none"), Frame("session.start", "none", "none"),
   Frame("audio.chunk", "none", "a1"), Frame("session.end", "none", "none")}

NextRun ==
  \/ \E c \in BridgeConns : Accept(c, Logged(c, "accept", NoFrame, 0, MaxRun))
  \/ \E c \in BridgeConns, m \in RunFrames :
       Message(c, m, 1, Logged(c, "frame", m, 0, MaxRun))
  \/ \E c \in BridgeConns : SocketClosed(c, Logged(c, "socket closed", NoFrame, 0, MaxRun))
  \/ \E c \in BridgeConns : UpstreamOpen(c, 1, Logged(c, "upstream open", NoFrame, 1, MaxRun))
  \/ \E c \in BridgeConns, m \in TimerUpstream :
       UpstreamMessage(c, 1, m, Logged(c, "upstream message", NoFrame, 1, MaxRun))
  \/ \E c \in BridgeConns :
       UpstreamClosed(c, 1, Logged(c, "upstream closed", NoFrame, 1, MaxRun))

SpecRun == Init /\ [][NextRun]_vars

\* The decoding of upstream frames: one session, and every frame the
\* upstream may send, with a digest of the frames so far.
DecodeFrames == {Frame("auth", "u1", "none"), Frame("session.start", "none", "none")}

NextDecode ==
  \/ \E c \in BridgeConns : Accept(c, Quiet)
  \/ \E c \in BridgeConns, m \in DecodeFrames : Message(c, m, 1, Quiet)
  \/ \E c \in BridgeConns : SocketClosed(c, Quiet)
  \/ \E c \in BridgeConns : UpstreamOpen(c, 1, Quiet)
  \/ \E c \in BridgeConns, m \in UpstreamMessages : UpstreamMessage(c, 1, m, Decoded(c, 1, m))
  \/ \E c \in BridgeConns : UpstreamClosed(c, 1, Quiet)

SpecDecode == Init /\ [][NextDecode]_vars

\* The connect of an upstream client: the frames that start and end a
\* session, every event of the upstream socket, the timers and the clock.
ConnectFrames ==
  {Frame("auth", "u1", "none"), Frame("session.start", "none", "none"),
   Frame("session.end", "none", "none")}

NextConnect ==
  \/ \E c \in BridgeConns : Accept(c, Quiet)
  \/ \E c \in BridgeConns, m \in ConnectFrames : Message(c, m, MaxConnects, Quiet)
  \/ \E c \in BridgeConns : SocketClosed(c, Quiet)
  \/ \E c \in BridgeConns, t \in 1..MaxConnects : SessionTimerFires(c, t, Quiet)
  \/ \E c \in BridgeConns, i \in 1..MaxConnects : UpstreamOpen(c, i, Quiet)
  \/ \E c \in BridgeConns, i \in 1..MaxConnects, e \in WsErrors :
       UpstreamError(c, i, e, Quiet)
  \/ \E c \in BridgeConns, i \in 1..MaxConnects : UpstreamClosed(c, i, Quiet)
  \/ \E c \in BridgeConns, i \in 1..MaxConnects : ConnectTimeout(c, i, Quiet)
  \/ Tick(Deadlines, Quiet)

FairConnect ==
  /\ WF_vars(Tick(Deadlines, Quiet))
  /\ \A c \in BridgeConns, i \in 1..MaxConnects :
       /\ WF_vars(ConnectTimeout(c, i, Quiet))
       /\ WF_vars(SessionTimerFires(c, i, Quiet))

SpecConnect == Init /\ [][NextConnect]_vars /\ FairConnect

\* Sessions restarted on one connection with the timers running: each
\* session.start arms a connect timeout, each success a session timer.
RestartFrames == {Frame("auth", "u1", "none"), Frame("session.start", "none", "none")}

NextRestart ==
  \/ \E c \in BridgeConns : Accept(c, Quiet)
  \/ \E c \in BridgeConns, m \in RestartFrames : Message(c, m, MaxRestarts, Quiet)
  \/ \E c \in BridgeConns, t \in 1..MaxRestarts : SessionTimerFires(c, t, Quiet)
  \/ \E c \in BridgeConns, i \in 1..MaxRestarts : UpstreamOpen(c, i, Quiet)
  \/ \E c \in BridgeConns, i \in 1..MaxRestarts : ConnectTimeout(c, i, Quiet)
  \/ Tick(Deadlines, Quiet)

SpecRestart == Init /\ [][NextRestart]_vars

(* ------------------------------- claims ------------------------------- *)
\* the cleanup has run for c: the connection was accepted and its rate limit
\* record is gone (closeConnection and the socket's close handler remove it,
\* nothing else does)
CleanupRan(c) == conns[c].sock # "NONE" /\ c \notin DOMAIN connectionRateLimits

\* an upstream client on which close() has not been called since connect()
Live(cl) == cl.ws \/ cl.isConnected

ArmedTimers(c) == {t \in 1..Len(conns[c].timers) : conns[c].timers[t].st = "armed"}

\* C1: over the life of a connection the client is sent exactly one
\* session.ended frame: never a second one, and one whenever the server has
\* closed the connection.
C1_ExactlyOneSessionEnded ==
  \A c \in BridgeConns :
    /\ endedCount[c] <= 1
    /\ conns[c].sock = "CLOSING" => endedCount[c] = 1

\* C2: every upstream client of a connection except the attached one (the
\* newest) has been closed, so at most one is live; and a step that
\* constructs a client while one is attached leaves the old one closed, also
\* when its connect was still pending.
C2_Inv ==
  \A c \in BridgeConns :
    /\ conns[c].openaiClient = Len(conns[c].clients)
    /\ \A i \in Clients(c) : i # conns[c].openaiClient => ~Live(conns[c].clients[i])
    /\ Cardinality({i \in Clients(c) : Live(conns[c].clients[i])}) <= 1

C2_Step ==
  \A c \in BridgeConns :
    Len(conns'[c].clients) > Len(conns[c].clients) /\ conns[c].openaiClient # 0 =>
      LET old == conns[c].openaiClient IN
      /\ conns'[c].clients[old] = close(conns[c].clients[old])
      /\ ~Live(conns'[c].clients[old])
      /\ conns'[c].clients[old].rs # "OPEN"
      /\ conns'[c].openaiClient = old + 1
      /\ conns'[c].clients[old + 1] = NewClient

C2_AtMostOneLiveSession == [](C2_Inv) /\ [][C2_Step]_vars

\* C2's case: a second session.start arrived while the first connect was
\* pending; the first client is closed, the second attached
C2_Witness ==
  /\ Len(conns["c1"].clients) = 2
  /\ conns["c1"].clients[1].promise = "pending"
  /\ ~Live(conns["c1"].clients[1])
  /\ Live(conns["c1"].clients[2])

\* C3: when the upstream closes unilaterally (the close event of the attached
\* client, open and not closed by the bridge), that step runs the cleanup: no
\* session timer stays armed and the rate limit record is removed.  (The
\* closing of the client socket is the part the cleanup may leave for later.)
C3_UpstreamCloseCleansUp ==
  [][\A c \in BridgeConns, i \in 1..MaxClients :
       (/\ UpstreamClosed(c, i, TRUE)
        /\ i = conns[c].openaiClient
        /\ conns[c].clients[i].ws
        /\ conns[c].clients[i].rs = "OPEN")
       => /\ ArmedTimers(c)' = {}
          /\ c \notin DOMAIN connectionRateLimits']_vars

\* C4: after the cleanup has run, no session timer of the connection is
\* armed, every upstream client it created is closed, its rate limit record
\* is absent and the client socket is not open.
C4_CleanupLeavesNothing ==
  \A c \in BridgeConns :
    CleanupRan(c) =>
      /\ ArmedTimers(c) = {}
      /\ \A i \in Clients(c) : ~Live(conns[c].clients[i])
      /\ c \notin DOMAIN connectionRateLimits
      /\ conns[c].sock # "OPEN"

CleanupReasons ==
  {"Client requested end", "Session timeout", "No token provided", "Authentication failed"}

\* C5: the cleanup is idempotent: once it has run for a connection, running
\* closeConnection again (whatever the reason), or the socket's close handler,
\* sends nothing and changes nothing.
C5_CleanupIdempotent ==
  \A c \in BridgeConns :
    CleanupRan(c) =>
      /\ \A r \in CleanupReasons : closeConnection(World, c, r) = World
      /\ OnSocketClose(World, c) = World

\* C5's case: a session was started and timed, closeConnection ran (it called
\* socket.close) and the socket's close handler ran after it
C5_Witness ==
  /\ conns["c1"].sock = "CLOSED"
  /\ conns["c1"].closeArgs # <<>>
  /\ conns["c1"].sessionTimeout # 0
  /\ CleanupRan("c1")

\* the handlers of c suspended at `await openaiClient.connect()`
Suspended(c) == {i \in Clients(c) : conns[c].clients[i].promise = "pending"}

\* C6: the handler of a frame never starts while the handler of an earlier
\* frame of the connection is suspended.
C6_HandlersRunSerially ==
  [][\A c \in BridgeConns :
       (\E m \in BridgeFrames : Message(c, m, MaxClients, TRUE)) => Suspended(c) = {}]_vars

\* what C7 and C8 call the connection's state
ConnState(cn) ==
  <<cn.userId, cn.openaiClient, cn.clients, cn.sessionTimeout, cn.timers, cn.sock>>

IsError(s) == Len(s) = 1 /\ s[1].type = "error"

GatedFrames ==
  {Frame("session.start", "none", "none"), Frame("audio.chunk", "none", "a1"),
   Frame("interrupt", "none", "none")}

\* C7, as claimed: on a connection that has not authenticated, each
\* session.start, audio.chunk and interrupt frame is answered with one error
\* frame and leaves the connection's state unchanged.
C7_GatedFramesRejected ==
  [][\A c \in BridgeConns, m \in GatedFrames :
       conns[c].userId = NoUser /\ conns[c].sock = "OPEN" /\ Message(c, m, MaxClients, TRUE)
       => /\ IsError(out'[c])
          /\ ConnState(conns'[c]) = ConnState(conns[c])]_vars

\* the one error frame with this code
OneError(s, code) == IsError(s) /\ s[1].code = code

\* C7, amended: on a connection that has not authenticated and whose socket
\* is open, a frame the rate limiter rejects is answered with RATE_LIMIT;
\* otherwise session.start is answered with NOT_AUTHENTICATED, audio.chunk
\* with NO_SESSION and interrupt with no frame; the connection's state is
\* unchanged and nothing is sent upstream.
C7_GatedFramesLeaveState ==
  [][\A c \in BridgeConns, m \in GatedFrames :
       conns[c].userId = NoUser /\ conns[c].sock = "OPEN" /\ Message(c, m, MaxClients, TRUE)
       => /\ IF ~checkRateLimit(connectionRateLimits, c).ok
             THEN OneError(out'[c], "RATE_LIMIT")
             ELSE CASE m.type = "session.start" -> OneError(out'[c], "NOT_AUTHENTICATED")
                    [] m.type = "audio.chunk" -> OneError(out'[c], "NO_SESSION")
                    [] OTHER -> out'[c] = <<>>
          /\ ConnState(conns'[c]) = ConnState(conns[c])
          /\ upOut'[c] = <<>>]_vars

\* C7's case: an audio.chunk frame was refused on an unauthenticated connection
C7_Witness ==
  /\ conns["c1"].userId = NoUser
  /\ conns["c1"].sock = "OPEN"
  /\ out["c1"] = <<ErrorFrame("No active session", "NO_SESSION")>>

\* C8: a session.start frame on an unauthenticated connection, within the
\* rate limit, produces exactly one error frame with code NOT_AUTHENTICATED,
\* creates no upstream client, arms no timer and leaves the socket open.
C8_StartNeedsAuth ==
  [][\A c \in BridgeConns :
       (/\ conns[c].userId = NoUser
        /\ checkRateLimit(connectionRateLimits, c).ok
        /\ Message(c, Frame("session.start", "none", "none"), MaxClients, TRUE))
       => /\ out'[c] = <<ErrorFrame("Not authenticated", "NOT_AUTHENTICATED")>>
          /\ conns'[c].clients = <<>>
          /\ conns'[c].openaiClient = 0
          /\ conns'[c].timers = <<>>
          /\ conns'[c].sessionTimeout = 0
          /\ upOut'[c] = <<>>
          /\ conns'[c].sock = "OPEN"
          /\ conns'[c].userId = NoUser]_vars

\* C8's case: session.start was refused for want of authentication
C8_Witness ==
  /\ conns["c1"].userId = NoUser
  /\ conns["c1"].sock = "OPEN"
  /\ conns["c1"].clients = <<>>
  /\ out["c1"] = <<ErrorFrame("Not authenticated", "NOT_AUTHENTICATED")>>

\* the last RATE_LIMIT_PER_SEC + 1 frames the limiter accepted on c lie
\* within less than one second
Burst(c) ==
  /\ Len(acceptLog[c]) = RATE_LIMIT_PER_SEC + 1
  /\ acceptLog[c][RATE_LIMIT_PER_SEC + 1] - acceptLog[c][1] < RATE_WINDOW_MS

\* C9, as claimed: in every interval of one second, wherever it starts, the
\* limiter accepts at most RATE_LIMIT_PER_SEC frames of a connection.
C9_RollingWindow == \A c \in BridgeConns : ~Burst(c)

\* the frames in the log of c that the limiter accepted in the window its
\* record stands for: from resetAt - RATE_WINDOW_MS through resetAt
InWindow(c) ==
  {i \in 1..Len(acceptLog[c]) :
     acceptLog[c][i] >= connectionRateLimits[c].resetAt - RATE_WINDOW_MS}

\* C9, amended: the windows are fixed, not rolling.  In each window (from
\* the instant the record was created or reset through its reset time, one
\* second later) the limiter accepts at most RATE_LIMIT_PER_SEC frames and
\* counts them; a frame is dropped with RATE_LIMIT only when that many were
\* accepted in the window.
C9_FixedWindow ==
  \A c \in BridgeConns :
    c \in DOMAIN connectionRateLimits =>
      /\ Cardinality(InWindow(c)) <= RATE_LIMIT_PER_SEC
      /\ Cardinality(InWindow(c)) = connectionRateLimits[c].count
      /\ OneError(out[c], "RATE_LIMIT") => Cardinality(InWindow(c)) = RATE_LIMIT_PER_SEC

\* C9's case: the window is full and a further frame was dropped
C9_Witness ==
  /\ "c1" \in DOMAIN connectionRateLimits
  /\ Cardinality(InWindow("c1")) = RATE_LIMIT_PER_SEC
  /\ OneError(out["c1"], "RATE_LIMIT")

\* a step of connection c at the rate limiter
SiblingStep(c) ==
  \/ Accept(c, TRUE)
  \/ \E m \in SiblingFrames : Message(c, m, 0, TRUE)
  \/ SocketClosed(c, TRUE)

\* C10: a step of one connection (its creation, a frame accepted or rejected,
\* its cleanup) changes neither the rate limit record of another connection
\* nor what the limiter would decide for it.
C10_RateLimitIsolated ==
  [][\A c \in AllConns : \A d \in AllConns \ {c} :
       SiblingStep(c) =>
         /\ (d \in DOMAIN connectionRateLimits') = (d \in DOMAIN connectionRateLimits)
         /\ d \in DOMAIN connectionRateLimits =>
              connectionRateLimits'[d] = connectionRateLimits[d]
         /\ checkRateLimit(connectionRateLimits', d).ok
              = checkRateLimit(connectionRateLimits, d).ok]_vars

\* C10's case: one connection is being refused for its rate while its
\* sibling, with a record of its own, is not
C10_Witness ==
  /\ OneError(out["c1"], "RATE_LIMIT")
  /\ connectionRateLimits["c1"].count = RATE_LIMIT_PER_SEC
  /\ "c2" \in DOMAIN connectionRateLimits
  /\ connectionRateLimits["c2"].count \in 1..(RATE_LIMIT_PER_SEC - 1)

\* the frames the rate limiter checks
LimitedFrames == {m \in BridgeFrames : m.type \notin {"auth", "<malformed>"}}

\* C11: a frame other than auth that the rate limiter rejects on an open
\* connection has one effect, the error frame with code RATE_LIMIT: nothing is
\* sent upstream, the connection's state (its socket, subject, upstream
\* clients, timers) and the rate limit registry are as before.
C11_RejectedFrameDropped ==
  [][\A c \in BridgeConns, m \in LimitedFrames :
       (/\ conns[c].sock = "OPEN"
        /\ ~checkRateLimit(connectionRateLimits, c).ok
        /\ Message(c, m, MaxClients, TRUE))
       => /\ out'[c] = <<ErrorFrame("Rate limit exceeded", "RATE_LIMIT")>>
          /\ upOut'[c] = <<>>
          /\ conns' = conns
          /\ connectionRateLimits' = connectionRateLimits]_vars

\* C11's case: a frame was refused for the rate while a session is connected
C11_Witness ==
  /\ out["c1"] = <<ErrorFrame("Rate limit exceeded", "RATE_LIMIT")>>
  /\ conns["c1"].sock = "OPEN"
  /\ conns["c1"].openaiClient # 0
  /\ conns["c1"].clients[conns["c1"].openaiClient].isConnected
  /\ "c1" \in DOMAIN connectionRateLimits
  /\ connectionRateLimits["c1"].count = RATE_LIMIT_PER_SEC

\* the frame the session timer's callback sends
TimeoutEnded == [type |-> "session.ended", reason |-> "Session timeout"]

\* frames that are activity on a session
ActivityFrames ==
  {Frame("audio.chunk", "none", "a1"), Frame("interrupt", "none", "none")}

\* an armed session timer is not yet due, and was armed for SESSION_TIMEOUT_MS
\* from the instant its session became ready
C12_Inv ==
  \A c \in BridgeConns : \A t \in ArmedTimers(c) :
    /\ now <= conns[c].timers[t].deadline
    /\ conns[c].timers[t].deadline <= now + SESSION_TIMEOUT_MS

\* what a step may do to the session timers
C12_Step ==
  \A c \in BridgeConns :
    \* a timer is armed with session.ready, SESSION_TIMEOUT_MS ahead
    /\ Len(conns'[c].timers) >= Len(conns[c].timers)
    /\ \A t \in (Len(conns[c].timers) + 1)..Len(conns'[c].timers) :
         /\ conns'[c].timers[t] = [deadline |-> now + SESSION_TIMEOUT_MS, st |-> "armed"]
         /\ conns[c].sock = "OPEN" =>
              out'[c] = <<[type |-> "session.ready", sessionId |-> c]>>
    \* an armed timer keeps its deadline; it stays armed, or fires at its
    \* deadline and runs the cleanup, or is cleared by the cleanup
    /\ \A t \in ArmedTimers(c) :
         /\ conns'[c].timers[t].deadline = conns[c].timers[t].deadline
         /\ \/ conns'[c].timers[t].st = "armed"
            \/ /\ conns'[c].timers[t].st = "fired"
               /\ now = conns[c].timers[t].deadline
               /\ CleanupRan(c)'
               /\ conns'[c].sock # "OPEN"
               /\ conns[c].sock = "OPEN" =>
                    out'[c] = <<TimeoutEnded>> /\ conns'[c].closeArgs = <<CLOSE_NORMAL, "Session timeout">>
            \/ /\ conns'[c].timers[t].st = "cleared"
               /\ CleanupRan(c)'
    \* activity leaves the timers as they are
    /\ (\/ \E m \in ActivityFrames : Message(c, m, MaxTimed, TRUE)
        \/ \E i \in 1..MaxTimed, m \in TimerUpstream : UpstreamMessage(c, i, m, TRUE))
       => conns'[c].timers = conns[c].timers

\* C12: once armed (when session.start has succeeded) the session timer is
\* never postponed: whatever the later activity, its deadline stays
\* SESSION_TIMEOUT_MS after the instant it was armed, it stays armed until the
\* cleanup runs, and unless the cleanup has run before, it fires at that
\* deadline and runs the cleanup itself.
C12_TimerNotPostponed ==
  /\ [](C12_Inv)
  /\ [][C12_Step]_vars
  /\ \A c \in BridgeConns, t \in 1..MaxTimed :
       (t \in ArmedTimers(c)) ~> (t \notin ArmedTimers(c))

\* C12's case: the session timer fired at its deadline, after frames that the
\* limiter had counted in a later window than the one the session started in
C12_Witness ==
  /\ Len(conns["c1"].timers) >= 1
  /\ conns["c1"].timers[1].st = "fired"
  /\ now = conns["c1"].timers[1].deadline
  /\ out["c1"] = <<TimeoutEnded>>
  /\ conns["c1"].sock = "CLOSING"

\* C13: a connection has at most one armed session timer, in every reachable
\* state.
C13_SingleSessionTimer ==
  \A c \in BridgeConns : Cardinality(ArmedTimers(c)) <= 1

\* what an auth frame that fails must do on an open connection: the error
\* frame first, then the cleanup with this reason
AuthRejected(c, code, message, reason) ==
  /\ out'[c] = <<ErrorFrame(message, code), [type |-> "session.ended", reason |-> reason]>>
  /\ conns'[c].sock = "CLOSING"
  /\ conns'[c].closeArgs = <<CLOSE_NORMAL, reason>>
  /\ CleanupRan(c)'
  /\ ArmedTimers(c)' \subseteq ArmedTimers(c) \ {conns[c].sessionTimeout}
  /\ \A i \in Clients(c) : i = conns[c].openaiClient => ~Live(conns'[c].clients[i])

\* C14: on an open connection an auth frame without a token is answered with
\* the error AUTH_REQUIRED and one whose token fails verification with
\* AUTH_FAILED; the error frame is sent first, then the cleanup runs
\* (session.ended, timer cleared, upstream closed, rate limit record removed)
\* and the socket is closed with code 1000 and the reason.
C14_AuthFailureTerminates ==
  [][\A c \in BridgeConns :
       /\ (conns[c].sock = "OPEN" /\ Message(c, Frame("auth", "none", "none"), MaxClients, TRUE))
          => AuthRejected(c, "AUTH_REQUIRED", "Token required", "No token provided")
       /\ (conns[c].sock = "OPEN" /\ Message(c, Frame("auth", "bad", "none"), MaxClients, TRUE))
          => AuthRejected(c, "AUTH_FAILED", "Invalid token", "Authentication failed")]_vars

\* C14's case: an auth frame with a bad token was refused and the connection
\* closed
C14_Witness ==
  /\ out["c1"] = <<ErrorFrame("Invalid token", "AUTH_FAILED"),
                   [type |-> "session.ended", reason |-> "Authentication failed"]>>
  /\ conns["c1"].closeArgs = <<CLOSE_NORMAL, "Authentication failed">>
  /\ conns["c1"].sock = "CLOSING"

\* C15: once a connection has authenticated, an auth frame (whatever its
\* token) leaves the recorded subject as it is, sends no frame and leaves the
\* socket open.
C15_SubjectWriteOnce ==
  [][\A c \in BridgeConns, m \in AuthFrames :
       (conns[c].userId # NoUser /\ conns[c].sock = "OPEN" /\ Message(c, m, 0, TRUE))
       => /\ conns'[c].userId = conns[c].userId
          /\ out'[c] = <<>>
          /\ conns'[c].sock = "OPEN"]_vars

\* the first part of C15 alone: the recorded subject never changes
C15_SubjectKept ==
  [][\A c \in BridgeConns :
       conns[c].userId # NoUser => conns'[c].userId = conns[c].userId]_vars

HasType(s, type) == \E k \in 1..Len(s) : s[k].type = type

HasCode(s, code) == \E k \in 1..Len(s) : s[k].type = "error" /\ s[k].code = code

\* the step in which the connect of client i fails (its promise is rejected)
\* on an open connection: CONNECTION_FAILED is sent and no session.ended, the
\* socket stays open, the subject and the timers are as before, and the failed
\* client is not left attached
ConnectFailureStep(c, i) ==
  (/\ i \in Clients(c)
   /\ conns[c].clients[i].promise = "pending"
   /\ conns'[c].clients[i].promise = "rejected"
   /\ conns[c].sock = "OPEN")
  => /\ HasCode(out'[c], "CONNECTION_FAILED")
     /\ ~HasType(out'[c], "session.ended")
     /\ conns'[c].sock = "OPEN"
     /\ conns'[c].userId = conns[c].userId
     /\ conns'[c].timers = conns[c].timers
     /\ conns'[c].sessionTimeout = conns[c].sessionTimeout
     /\ conns'[c].openaiClient # i

\* the close event of a client whose connect failed sends the client nothing
CloseAfterConnectFailure(c, i) ==
  (UpstreamClosed(c, i, TRUE) /\ conns[c].clients[i].promise = "rejected")
  => out'[c] = <<>>

\* C16: when the connect started by session.start fails, the client is sent
\* CONNECTION_FAILED, the connection is not terminated (no session.ended, the
\* socket stays open) and its state is as before that session.start: same
\* subject, same timers, the failed client not attached.
C16_ConnectFailureKeepsState ==
  [][\A c \in BridgeConns, i \in 1..MaxClients :
       ConnectFailureStep(c, i) /\ CloseAfterConnectFailure(c, i)]_vars

\* the attached upstream client of c is connected and its socket is open
Active(c) ==
  /\ conns[c].openaiClient # 0
  /\ LET cl == conns[c].clients[conns[c].openaiClient] IN
     cl.isConnected /\ cl.ws /\ cl.rs = "OPEN"

AudioFrame == Frame("audio.chunk", "none", "a1")

\* the one frame that forwards the payload of AudioFrame upstream
Forwarded(c) ==
  <<[client |-> conns[c].openaiClient, type |-> "input_audio_buffer.append",
     audio |-> AudioFrame.audio]>>

NoSession == <<ErrorFrame("No active session", "NO_SESSION")>>

Events == [k \in 1..Len(runLog) |-> [runLog[k] EXCEPT !.sent = <<>>]]

\* the frames the client received, in order
RECURSIVE Received(_)
Received(k) == IF k = 0 THEN <<>> ELSE Received(k - 1) \o runLog[k].sent

\* the run of C18: accept, a valid auth, session.start, the upstream opens,
\* session.end
EndToEndRun ==
  <<Event("accept", NoFrame, 0, <<>>),
    Event("frame", Frame("auth", "u1", "none"), 0, <<>>),
    Event("frame", Frame("session.start", "none", "none"), 0, <<>>),
    Event("upstream open", NoFrame, 1, <<>>),
    Event("frame", Frame("session.end", "none", "none"), 0, <<>>)>>

\* C18: after the run valid auth, session.start with a successful connect,
\* session.end, the client has received exactly auth.success, session.ready
\* with the connection id, and one session.ended with reason "Client
\* requested end", in this order; the socket has been closed with code 1000
\* and that reason, and the upstream client has been closed.
C18_EndToEndRun ==
  \A c \in BridgeConns :
    Events = EndToEndRun =>
      /\ Received(Len(runLog)) =
           <<[type |-> "auth.success"],
             [type |-> "session.ready", sessionId |-> c],
             [type |-> "session.ended", reason |-> "Client requested end"]>>
      /\ conns[c].sock = "CLOSING"
      /\ conns[c].closeArgs = <<CLOSE_NORMAL, "Client requested end">>
      /\ Len(conns[c].clients) = 1
      /\ ~Live(conns[c].clients[1])
      /\ conns[c].clients[1].rs = "CLOSING"
      /\ CleanupRan(c)
      /\ ArmedTimers(c) = {}

\* C18's case: the run has been made
C18_Witness == Events = EndToEndRun /\ HasType(out["c1"], "session.ended")

InterruptFrame == Frame("interrupt", "none", "none")

\* the two frames of interrupt(), in their order
CancelThenClear(i) ==
  <<[client |-> i, type |-> "response.cancel"],
    [client |-> i, type |-> "input_audio_buffer.clear"]>>

\* C19: an interrupt frame that passes the rate limiter sends the client
\* nothing and changes no state.  When an upstream client is attached and
\* connected (its socket open), exactly two frames go upstream, the
\* cancel-response frame and then the clear-input-buffer frame; when the
\* attached client is not connected, or none is attached, nothing goes
\* upstream.
C19_InterruptCancelThenClear ==
  [][\A c \in BridgeConns :
       (checkRateLimit(connectionRateLimits, c).ok /\ Message(c, InterruptFrame, MaxClients, TRUE))
       => /\ out'[c] = <<>>
          /\ conns' = conns
          /\ upOut'[c] = IF Active(c) THEN CancelThenClear(conns[c].openaiClient) ELSE <<>>]_vars

\* C19's case: an interrupt frame reached a connected upstream client
C19_Witness ==
  /\ Active("c1")
  /\ upOut["c1"] = CancelThenClear(conns["c1"].openaiClient)

\* C20: once the cleanup has run for a connection, no step (a frame, the
\* continuation of a pending session.start, an upstream event, a timer)
\* creates an upstream client, opens one, arms a session timer, sends anything
\* upstream or sends the client any frame.
C20_EndedIsTerminal ==
  [][\A c \in BridgeConns :
       CleanupRan(c) =>
         /\ Len(conns'[c].clients) = Len(conns[c].clients)
         /\ \A i \in Clients(c) :
              /\ conns'[c].clients[i].rs = "OPEN" => conns[c].clients[i].rs = "OPEN"
              /\ ~Live(conns'[c].clients[i])
         /\ Len(conns'[c].timers) = Len(conns[c].timers)
         /\ ArmedTimers(c)' \subseteq ArmedTimers(c)
         /\ upOut'[c] = <<>>
         /\ out'[c] = <<>>
         /\ CleanupRan(c)']_vars

\* C20's case: the cleanup ran for want of a token, and an auth frame with a
\* valid token was handled after it
C20_Witness ==
  /\ CleanupRan("c1")
  /\ conns["c1"].closeArgs = <<CLOSE_NORMAL, "No token provided">>
  /\ conns["c1"].userId # NoUser

\* an error of upstream client i: an error event among its frames, or an
\* error of its socket; e is the error's message
UpstreamErrorStep(c, i, e) ==
  \/ UpstreamMessage(c, i, UpMsg("error", "none", e, NoItemField), TRUE)
  \/ UpstreamError(c, i, e, TRUE)

ErrorTexts == {"upstream text"} \cup WsErrors

\* C21: an upstream error after the connect has succeeded sends the client one
\* error frame with code OPENAI_ERROR and the error's message, and ends
\* nothing: no session.ended is sent, the socket stays open, the subject, the
\* attached upstream client and its connected flag, and the session timers
\* are as before.
C21_RuntimeErrorReported ==
  [][\A c \in BridgeConns, i \in 1..MaxClients, e \in ErrorTexts :
       (/\ UpstreamErrorStep(c, i, e)
        /\ conns[c].clients[i].promise = "resolved"
        /\ conns[c].sock = "OPEN")
       => /\ out'[c] = <<ErrorFrame(e, "OPENAI_ERROR")>>
          /\ conns'[c].sock = "OPEN"
          /\ conns'[c].userId = conns[c].userId
          /\ conns'[c].openaiClient = conns[c].openaiClient
          /\ conns'[c].clients[i].isConnected = conns[c].clients[i].isConnected
          /\ conns'[c].clients[i].ws = conns[c].clients[i].ws
          /\ conns'[c].timers = conns[c].timers
          /\ conns'[c].sessionTimeout = conns[c].sessionTimeout
          /\ connectionRateLimits' = connectionRateLimits]_vars

\* C21's case: an upstream error was reported during a session that goes on
C21_Witness ==
  /\ out["c1"] = <<ErrorFrame("upstream text", "OPENAI_ERROR")>>
  /\ Active("c1")
  /\ ArmedTimers("c1") # {}
  /\ conns["c1"].sock = "OPEN"

MalformedFrame == Frame("<malformed>", "none", "none")

\* C22: a frame that is not parsable JSON changes no state of the connection
\* and none of the rate limiter; on an open socket it is answered with one
\* error frame with code INVALID_MESSAGE; and whatever frame comes next is
\* handled as it would have been without it.
C22_MalformedFrameIgnored ==
  [][\A c \in BridgeConns :
       Message(c, MalformedFrame, MaxClients, TRUE)
       => /\ conns' = conns
          /\ connectionRateLimits' = connectionRateLimits
          /\ upOut'[c] = <<>>
          /\ out'[c] = IF conns[c].sock = "OPEN"
                       THEN <<ErrorFrame("Invalid message format", "INVALID_MESSAGE")>>
                       ELSE <<>>
          /\ \A m \in BridgeFrames : OnMessage(Fresh, c, m)' = OnMessage(Fresh, c, m)]_vars

\* C22's case: a malformed frame was refused during a session
C22_Witness ==
  /\ out["c1"] = <<ErrorFrame("Invalid message format", "INVALID_MESSAGE")>>
  /\ Active("c1")
  /\ conns["c1"].sock = "OPEN"

MalformedUp == UpMsg("<malformed>", "none", "none", NoItemField)

\* C23: an upstream frame that fails JSON decoding sends the client nothing
\* (no callback runs), sends nothing upstream and changes no state, the
\* client's current item id and connected flag included; whatever frame the
\* upstream sends next is decoded as it would have been without it.
C23_UndecodableFrameDropped ==
  [][\A c \in BridgeConns :
       UpstreamMessage(c, 1, MalformedUp, TRUE)
       => /\ out'[c] = <<>>
          /\ upOut'[c] = <<>>
          /\ conns' = conns
          /\ connectionRateLimits' = connectionRateLimits
          /\ \A m \in UpstreamMessages :
               handleMessage(Fresh, c, 1, m)' = handleMessage(Fresh, c, 1, m)]_vars

\* C23's case: an undecodable frame arrived on a connected client that has a
\* current item id recorded
C23_Witness ==
  /\ Len(runLog) > 0
  /\ runLog[Len(runLog)].up = MalformedUp
  /\ Active("c1")
  /\ conns["c1"].clients[1].cur = "r1"
  /\ out["c1"] = <<>>

\* the last upstream frame, with what it sent the client
LastUp == runLog[Len(runLog)]

\* the item id of the last output_item.added frame of kind message, NoItem
\* when there was none
LastAdded ==
  LET A == {k \in 1..Len(runLog) : IsItemAdded(runLog[k])} IN
  IF A = {} THEN NoItem ELSE runLog[Max(A)].up.item.id

\* a response.done frame came after the last output_item.added of kind message
DoneSince ==
  \E k \in 1..Len(runLog) :
    /\ IsResponseDone(runLog[k])
    /\ \A j \in 1..Len(runLog) : IsItemAdded(runLog[j]) => j < k

ItemEvents ==
  {"response.audio.delta", "response.audio.done",
   "response.audio_transcript.delta", "response.audio_transcript.done"}

\* the last upstream frame was one of the four events and invoked its callback
ItemCallback ==
  /\ Len(runLog) > 0
  /\ LastUp.up.type \in ItemEvents
  /\ LastUp.sent # <<>>

\* C24, as claimed: the item id passed is the event's own when present, else
\* the one recorded by the most recent output_item.added of kind message,
\* else "unknown" when none has been recorded.
C24_ItemIdFallback ==
  ItemCallback =>
    /\ Len(LastUp.sent) = 1
    /\ LastUp.sent[1].itemId =
         IF LastUp.up.item_id # "none" THEN LastUp.up.item_id
         ELSE IF LastAdded # NoItem THEN LastAdded
         ELSE "unknown"

\* C24, amended: the item id passed is the event's own when present, else the
\* one recorded by the most recent output_item.added of kind message provided
\* no response.done has come since, else "unknown"; and the client's current
\* item id is that recorded id, or none.
C24_ItemIdFallbackUntilDone ==
  /\ ItemCallback =>
       /\ Len(LastUp.sent) = 1
       /\ LastUp.sent[1].itemId =
            IF LastUp.up.item_id # "none" THEN LastUp.up.item_id
            ELSE IF LastAdded # NoItem /\ ~DoneSince THEN LastAdded
            ELSE "unknown"
  /\ Len(conns["c1"].clients) = 1 =>
       conns["c1"].clients[1].cur = IF DoneSince THEN NoItem ELSE LastAdded

\* C24's case: an event without an item id of its own was passed on with the
\* id of the second of two recorded items
C24_Witness ==
  /\ ItemCallback
  /\ LastUp.up.item_id = "none"
  /\ LastAdded = "r2"
  /\ LastUp.sent[1].itemId = "r2"

Pending(c, i) == i \in Clients(c) /\ conns[c].clients[i].promise = "pending"

\* while a connect is pending its timeout is armed and not yet past: it was
\* armed CONNECT_TIMEOUT_MS ahead when connect() was called
C25_Inv ==
  \A c \in BridgeConns : \A i \in Clients(c) :
    /\ conns[c].clients[i].ctimer.deadline <= now + CONNECT_TIMEOUT_MS
    /\ conns[c].clients[i].promise = "pending" =>
         /\ conns[c].clients[i].ctimer.st = "armed"
         /\ now <= conns[c].clients[i].ctimer.deadline
         /\ ~conns[c].clients[i].isConnected
    /\ conns[c].clients[i].promise = "rejected" => conns[c].clients[i].rs # "OPEN"

\* what a step may do to the promise of connect()
C25_Step ==
  \A c \in BridgeConns : \A i \in Clients(c) :
    \* settled once: a settled promise stays as it is
    /\ conns[c].clients[i].promise # "pending" =>
         conns'[c].clients[i].promise = conns[c].clients[i].promise
    \* it resolves when the socket opens
    /\ UpstreamOpen(c, i, TRUE) =>
         conns[c].clients[i].promise = "pending" /\ conns'[c].clients[i].promise = "resolved"
    /\ conns'[c].clients[i].promise = "resolved" /\ conns[c].clients[i].promise = "pending" =>
         UpstreamOpen(c, i, TRUE)
    \* it rejects on an error before the socket has opened, and on the timeout
    /\ (Pending(c, i) /\ \E e \in WsErrors : UpstreamError(c, i, e, TRUE)) =>
         conns'[c].clients[i].promise = "rejected"
    /\ (Pending(c, i) /\ ConnectTimeout(c, i, TRUE)) =>
         /\ conns'[c].clients[i].promise = "rejected"
         /\ now = conns[c].clients[i].ctimer.deadline
         /\ ~Live(conns'[c].clients[i])
    \* the timeout leaves a client that is connected as it is
    /\ (ConnectTimeout(c, i, TRUE) /\ conns[c].clients[i].isConnected) =>
         /\ conns'[c].clients[i] = [conns[c].clients[i] EXCEPT !.ctimer.st = "fired"]
         /\ out'[c] = <<>>
         /\ upOut'[c] = <<>>

\* C25: the promise of connect() settles once: it resolves when the socket
\* opens, rejects on an error before that and when the connect timeout
\* expires with the connect pending; a pending connect settles (its timeout
\* is armed CONNECT_TIMEOUT_MS ahead and fires); and the timeout's expiry
\* leaves a connected client as it is.
C25_ConnectSettlesOnce ==
  /\ [](C25_Inv)
  /\ [][C25_Step]_vars
  /\ \A c \in BridgeConns, i \in 1..MaxConnects : Pending(c, i) ~> ~Pending(c, i)

\* C25's case: the connect timeout expired on a client that had connected and
\* is still open
C25_Witness ==
  /\ Active("c1")
  /\ conns["c1"].clients[1].ctimer.st = "fired"
  /\ now = conns["c1"].clients[1].ctimer.deadline
  /\ conns["c1"].clients[1].promise = "resolved"

\* the frames of upstream client i among those a step sent upstream
FramesOf(s, i) == SelectSeq(s, LAMBDA f : f.client = i)

SessionUpdate(i) == [client |-> i, type |-> "session.update", voice |-> "sage"]

\* C26: the step in which an upstream socket opens sends the session.update
\* frame upstream, and nothing else; no step sends a frame on an upstream
\* connection that has not opened; so session.update is the first frame of
\* every upstream connection, and append-audio, cancel and clear frames come
\* after it.
C26_SessionUpdateFirst ==
  /\ [](\A c \in BridgeConns : \A i \in Clients(c) :
          conns[c].clients[i].isConnected => conns[c].clients[i].promise = "resolved")
  /\ [][\A c \in BridgeConns, i \in 1..MaxClients :
          /\ UpstreamOpen(c, i, TRUE) =>
               /\ upOut'[c] = <<SessionUpdate(i)>>
               /\ conns'[c].clients[i].promise = "resolved"
          /\ (i \in Clients(c)' /\ FramesOf(upOut'[c], i) # <<>>) =>
               \/ UpstreamOpen(c, i, TRUE)
               \/ /\ i \in Clients(c)
                  /\ conns[c].clients[i].promise = "resolved"
                  /\ conns[c].clients[i].isConnected
                  /\ ~HasType(upOut'[c], "session.update")]_vars

\* C26's case: the upstream socket has opened: session.update went upstream
\* and session.ready to the client
C26_Witness ==
  /\ upOut["c1"] = <<SessionUpdate(1)>>
  /\ out["c1"] = <<[type |-> "session.ready", sessionId |-> "c1"]>>
  /\ Active("c1")

\* close() has been called on the client
Closed(cl) == ~cl.ws

\* C27: close() may be called on a client in any state: it leaves the client
\* closed and marked disconnected, and a second call changes nothing; on a
\* closed client sendAudio and interrupt send nothing (they change nothing);
\* and a closed client stays closed, no later step sending a frame on it.
C27_Inv ==
  \A c \in BridgeConns : \A i \in Clients(c) :
    LET w1 == closeClient(World, c, i) IN
    /\ Closed(w1.conns[c].clients[i])
    /\ ~w1.conns[c].clients[i].isConnected
    /\ w1.conns[c].clients[i].rs # "OPEN"
    /\ closeClient(w1, c, i) = w1
    /\ sendAudio(w1, c, i, "a1") = w1
    /\ interrupt(w1, c, i) = w1

C27_Step ==
  \A c \in BridgeConns : \A i \in Clients(c) :
    Closed(conns[c].clients[i]) =>
      /\ Closed(conns'[c].clients[i])
      /\ ~conns'[c].clients[i].isConnected
      /\ FramesOf(upOut'[c], i) = <<>>

C27_CloseIdempotent == [](C27_Inv) /\ [][C27_Step]_vars

\* C27's case: close() has been called on a client that had connected, and
\* its socket has not closed yet
C27_Witness ==
  /\ Len(conns["c1"].clients) = 1
  /\ Closed(conns["c1"].clients[1])
  /\ conns["c1"].clients[1].promise = "resolved"
  /\ conns["c1"].clients[1].rs = "CLOSING"

\* the clients whose connect resolves in the step
Resolving(c) ==
  {i \in Clients(c) :
     conns[c].clients[i].promise = "pending" /\ conns'[c].clients[i].promise = "resolved"}

ReadyFrame(c) == [type |-> "session.ready", sessionId |-> c]

\* C28: session.ready is sent in the step in which the connect of a
\* session.start resolves, and in no other; it carries the connection id; the
\* session timer is armed in that step (SESSION_TIMEOUT_MS ahead, its handle
\* kept), and no other step arms a timer.
C28_ReadyOnConnect ==
  [][\A c \in BridgeConns :
       /\ HasType(out'[c], "session.ready") => Resolving(c) # {}
       /\ Resolving(c) # {} =>
            /\ \E i \in 1..MaxClients : UpstreamOpen(c, i, TRUE)
            /\ out'[c] = <<ReadyFrame(c)>>
            /\ conns'[c].timers =
                 Append(conns[c].timers, [deadline |-> now + SESSION_TIMEOUT_MS, st |-> "armed"])
            /\ conns'[c].sessionTimeout = Len(conns'[c].timers)
       /\ Resolving(c) = {} =>
            /\ Len(conns'[c].timers) = Len(conns[c].timers)
            /\ ArmedTimers(c)' \subseteq ArmedTimers(c)
            /\ conns'[c].sessionTimeout = conns[c].sessionTimeout]_vars

\* C28's case: a session has just become ready, its timer armed
C28_Witness ==
  /\ out["c1"] = <<ReadyFrame("c1")>>
  /\ ArmedTimers("c1") = {1}
  /\ conns["c1"].timers[1].deadline = now + SESSION_TIMEOUT_MS
  /\ conns["c1"].sessionTimeout = 1

UnknownFrame == Frame("unknown", "none", "none")

\* C29: a frame of a type the switch does not know, accepted by the rate
\* limiter, sends the client nothing, sends nothing upstream and changes no
\* state of the connection.
C29_UnknownFrameIgnored ==
  [][\A c \in BridgeConns :
       (checkRateLimit(connectionRateLimits, c).ok /\ Message(c, UnknownFrame, MaxClients, TRUE))
       => /\ out'[c] = <<>>
          /\ upOut'[c] = <<>>
          /\ conns' = conns]_vars

\* C29's case: during a session, frames the limiter counted and that sent
\* nothing anywhere
C29_Witness ==
  /\ Active("c1")
  /\ ArmedTimers("c1") # {}
  /\ out["c1"] = <<>>
  /\ upOut["c1"] = <<>>
  /\ "c1" \in DOMAIN connectionRateLimits
  /\ connectionRateLimits["c1"].count = 3

\* C30: an interrupt frame, accepted by the rate limiter or not, ends nothing:
\* the connection's state is as before (socket open, upstream client attached
\* and connected, timers), and no session.ended frame is sent.
C30_InterruptEndsNothing ==
  [][\A c \in BridgeConns :
       (conns[c].sock = "OPEN" /\ Message(c, InterruptFrame, MaxClients, TRUE))
       => /\ conns' = conns
          /\ conns'[c].sock = "OPEN"
          /\ ~HasType(out'[c], "session.ended")
          /\ c \in DOMAIN connectionRateLimits'
          /\ Active(c) => Active(c)']_vars

\* C30's case: an interrupt went upstream in a timed session, which goes on
C30_Witness ==
  /\ Active("c1")
  /\ upOut["c1"] = CancelThenClear(conns["c1"].openaiClient)
  /\ ArmedTimers("c1") # {}
  /\ conns["c1"].sock = "OPEN"
  /\ out["c1"] = <<>>

\* the codes of the error frames
ErrorCodes ==
  {"AUTH_REQUIRED", "AUTH_FAILED", "NOT_AUTHENTICATED", "NO_SESSION", "RATE_LIMIT",
   "CONNECTION_FAILED", "OPENAI_ERROR", "INVALID_MESSAGE"}

\* the message texts the server itself writes into error frames
ServerTexts ==
  {"Token required", "Invalid token", "Not authenticated", "No active session",
   "Rate limit exceeded", "Failed to start voice session", "Invalid message format"}

\* C31, as claimed: every error frame sent to the client carries one of the
\* fixed codes and one of the server's own texts, never the message of an
\* upstream or internal exception.
C31_ErrorFramesTranslated ==
  \A c \in BridgeConns : \A k \in 1..Len(out[c]) :
    out[c][k].type = "error" =>
      /\ out[c][k].code \in ErrorCodes
      /\ out[c][k].message \in ServerTexts

\* C32: response.done clears the current item id: an audio or transcript
\* event without an item id of its own that comes after a response.done, with
\* no output_item.added of kind message in between, is passed on with item id
\* "unknown", not with the id of the finished response.
C32_DoneClearsItem ==
  /\ [](\A c \in BridgeConns :
          (ItemCallback /\ LastUp.up.item_id = "none" /\ DoneSince) =>
             /\ Len(LastUp.sent) = 1
             /\ LastUp.sent[1].itemId = "unknown"
             /\ LastUp.sent[1].itemId # LastAdded)
  /\ [][\A c \in BridgeConns :
          UpstreamMessage(c, 1, UpMsg("response.done", "none", "none", NoItemField), TRUE)
          => /\ conns'[c].clients[1].cur = NoItem
             /\ out'[c] = <<>>]_vars

\* C32's case: an item was recorded, its response finished, and a later event
\* without an item id was passed on as "unknown"
C32_Witness ==
  /\ ItemCallback
  /\ LastUp.up.item_id = "none"
  /\ LastAdded = "r1"
  /\ DoneSince
  /\ LastUp.sent[1].itemId = "unknown"

\* the frames of the rate limiter's specification that the limiter checks
CountedFrames == {m \in RateFrames : m.type \notin {"auth", "<malformed>"}}

\* the stored count is the number of frames accepted in the window, at most
\* RATE_LIMIT_PER_SEC
C33_Inv ==
  \A c \in BridgeConns :
    c \in DOMAIN connectionRateLimits =>
      /\ connectionRateLimits[c].count \in 0..RATE_LIMIT_PER_SEC
      /\ Cardinality(InWindow(c)) = connectionRateLimits[c].count

\* what a checked frame does to the record (the cleanup, when the frame runs
\* it, removes the record afterwards)
C33_Step ==
  \A c \in BridgeConns, m \in CountedFrames :
    (c \in DOMAIN connectionRateLimits /\ Message(c, m, 0, TRUE)) =>
      LET r == connectionRateLimits[c]
          kept == c \in DOMAIN connectionRateLimits'
      IN  /\ now > r.resetAt =>
               /\ checkRateLimit(connectionRateLimits, c).ok
               /\ checkRateLimit(connectionRateLimits, c).rl[c]
                    = [count |-> 1, resetAt |-> now + RATE_WINDOW_MS]
               /\ kept => connectionRateLimits'[c]
                            = [count |-> 1, resetAt |-> now + RATE_WINDOW_MS]
               /\ ~HasCode(out'[c], "RATE_LIMIT")
          /\ (now <= r.resetAt /\ r.count >= RATE_LIMIT_PER_SEC) =>
               /\ ~checkRateLimit(connectionRateLimits, c).ok
               /\ connectionRateLimits' = connectionRateLimits
               /\ conns[c].sock = "OPEN" =>
                    out'[c] = <<ErrorFrame("Rate limit exceeded", "RATE_LIMIT")>>
          /\ (now <= r.resetAt /\ r.count < RATE_LIMIT_PER_SEC) =>
               /\ checkRateLimit(connectionRateLimits, c).ok
               /\ kept => connectionRateLimits'[c]
                            = [count |-> r.count + 1, resetAt |-> r.resetAt]
               /\ ~HasCode(out'[c], "RATE_LIMIT")

\* C33: in one window (from a reset until the stored reset time has passed)
\* at most RATE_LIMIT_PER_SEC frames are accepted, and the stored count, which
\* counts them, never exceeds that; a rejected frame leaves the record as it
\* is; the first frame checked strictly after the reset time starts a new
\* window: count 1, reset time RATE_WINDOW_MS after the frame.
C33_WindowCount == [](C33_Inv) /\ [][C33_Step]_vars

\* C33's case: after a full window, a frame strictly after the reset time has
\* started a new one
C33_Witness ==
  /\ "c1" \in DOMAIN connectionRateLimits
  /\ connectionRateLimits["c1"] = [count |-> 1, resetAt |-> now + RATE_WINDOW_MS]
  /\ Len(acceptLog["c1"]) = RATE_LIMIT_PER_SEC + 1
  /\ acceptLog["c1"][RATE_LIMIT_PER_SEC + 1] = now
  /\ acceptLog["c1"][1] < now - RATE_WINDOW_MS

\* C34: auth frames are exempt from the rate limiter: an auth frame is never
\* answered with RATE_LIMIT, whatever the count, and it leaves the rate limit
\* record as it is, unless the auth fails: then the cleanup removes the record.
C34_AuthExempt ==
  [][\A c \in BridgeConns, m \in AuthFrames :
       Message(c, m, 0, TRUE) =>
         /\ ~HasCode(out'[c], "RATE_LIMIT")
         /\ verify(m.token) # NoUser =>
              /\ connectionRateLimits' = connectionRateLimits
              /\ conns[c].sock = "OPEN" => out'[c] = <<[type |-> "auth.success"]>>
         /\ verify(m.token) = NoUser =>
              /\ c \notin DOMAIN connectionRateLimits'
              /\ \A d \in DOMAIN connectionRateLimits \ {c} :
                   /\ d \in DOMAIN connectionRateLimits'
                   /\ connectionRateLimits'[d] = connectionRateLimits[d]]_vars

\* C34's case: an auth frame succeeded while the window was full
C34_Witness ==
  /\ out["c1"] = <<[type |-> "auth.success"]>>
  /\ "c1" \in DOMAIN connectionRateLimits
  /\ connectionRateLimits["c1"].count = RATE_LIMIT_PER_SEC
  /\ conns["c1"].userId # NoUser

\* upstream client i of c is one the connection has closed: a later
\* session.start replaced it, or the cleanup ran
ClosedByConnection(c, i) ==
  /\ i \in Clients(c)
  /\ Closed(conns[c].clients[i])
  /\ i # conns[c].openaiClient \/ CleanupRan(c)

\* an event of upstream client i: a frame, an error or the close of its socket
LateEvent(c, i) ==
  \/ \E m \in BridgeUpstream : UpstreamMessage(c, i, m, TRUE)
  \/ \E e \in WsErrors : UpstreamError(c, i, e, TRUE)
  \/ UpstreamClosed(c, i, TRUE)

\* C35, as claimed: once the connection has closed an upstream session,
\* nothing that happens on that session afterwards (its frames, its error,
\* its close) sends the client a frame.
C35_ClosedSessionSilent ==
  [][\A c \in BridgeConns, i \in 1..MaxSessions :
       (ClosedByConnection(c, i) /\ LateEvent(c, i)) => out'[c] = <<>>]_vars

\* the frames a connection sends before its session.ended
BeforeEnded ==
  {"session.ready", "auth.success", "audio.chunk", "audio.done", "transcript.delta",
   "transcript.done", "error"}

\* C36, as claimed: session.ended is the last frame of a connection: once one
\* has been sent, no session.ready, auth.success, audio.chunk, audio.done,
\* transcript or error frame is sent on the connection.
C36_EndedIsLast ==
  [][\A c \in BridgeConns :
       endedCount[c] > 0 => \A k \in 1..Len(out'[c]) : out'[c][k].type \notin BeforeEnded]_vars

\* the instant of the session.start that created upstream client i: connect()
\* arms its timeout CONNECT_TIMEOUT_MS ahead (part_000, connect)
StartedAt(c, i) == conns[c].clients[i].ctimer.deadline - CONNECT_TIMEOUT_MS

\* C37, as claimed: the session timeout never ends a session earlier than
\* SESSION_TIMEOUT_MS after the session.start that started it, also when
\* earlier session.start frames of the connection armed timers of their own.
C37_FullSessionTime ==
  [][\A c \in BridgeConns, t \in 1..MaxRestarts :
       (SessionTimerFires(c, t, TRUE) /\ Active(c))
       => now >= StartedAt(c, conns[c].openaiClient) + SESSION_TIMEOUT_MS]_vars

SessionEnd == Frame("session.end", "none", "none")

\* the client socket closes, or a session.end frame is handled
ConnectionEnds(c) ==
  \/ SocketClosed(c, TRUE)
  \/ /\ checkRateLimit(connectionRateLimits, c).ok
     /\ Message(c, SessionEnd, MaxConnects, TRUE)

\* C38: when the client socket closes or a session.end is handled while a
\* session.start waits for its connect, the pending upstream client is
\* closed (its socket on the way to closed); from then on its connect does
\* not resolve, no session.ready is sent and no session timer is armed, also
\* when the wait ends.
C38_PendingConnectAbandoned ==
  [][\A c \in BridgeConns, i \in 1..MaxConnects :
       /\ (Pending(c, i) /\ ConnectionEnds(c)) =>
            /\ Closed(conns'[c].clients[i])
            /\ conns'[c].clients[i].rs \in {"CLOSING", "CLOSED"}
            /\ CleanupRan(c)'
            /\ ~HasType(out'[c], "session.ready")
            /\ ArmedTimers(c)' = {}
       /\ (Pending(c, i) /\ CleanupRan(c)) =>
            /\ conns'[c].clients[i].promise \in {"pending", "rejected"}
            /\ conns'[c].clients[i].rs # "OPEN"
            /\ ~HasType(out'[c], "session.ready")
            /\ conns'[c].timers = conns[c].timers
            /\ conns'[c].sessionTimeout = conns[c].sessionTimeout]_vars

\* C38's case: a session.end was handled while the connect was pending, and
\* the wait has ended
C38_Witness ==
  /\ Len(conns["c1"].clients) = 1
  /\ conns["c1"].clients[1].promise = "rejected"
  /\ conns["c1"].closeArgs = <<CLOSE_NORMAL, "Client requested end">>
  /\ conns["c1"].timers = <<>>
  /\ conns["c1"].clients[1].ctimer.st = "armed"

\* the answers to a session.start among the frames of a step
Answers(s) ==
  Cardinality({k \in 1..Len(s) :
                 \/ s[k].type = "session.ready"
                 \/ s[k].type = "error" /\ s[k].code = "CONNECTION_FAILED"})

\* the upstream clients whose connect settles in the step
Settling(c) ==
  {i \in Clients(c) : conns[c].clients[i].promise = "pending"
                      /\ conns'[c].clients[i].promise # "pending"}

\* C39: a session.start that is handled (it creates an upstream client) is
\* answered once: when its connect settles, and it does settle, the client,
\* if its socket is open, is sent session.ready when the connect resolved and
\* the error CONNECTION_FAILED when it was rejected; no other step sends
\* either frame.
C39_StartAnsweredOnce ==
  /\ [][\A c \in BridgeConns :
          /\ Cardinality(Settling(c)) <= 1
          /\ Answers(out'[c]) = IF conns[c].sock = "OPEN" THEN Cardinality(Settling(c)) ELSE 0
          /\ \A i \in Settling(c) :
               conns[c].sock = "OPEN" =>
                 /\ conns'[c].clients[i].promise = "resolved" =>
                      HasType(out'[c], "session.ready")
                 /\ conns'[c].clients[i].promise = "rejected" =>
                      HasCode(out'[c], "CONNECTION_FAILED")
          /\ \A i \in Clients(c) :
               conns[c].clients[i].promise # "pending" =>
                 conns'[c].clients[i].promise = conns[c].clients[i].promise]_vars
  /\ \A c \in BridgeConns, i \in 1..MaxConnects :
       (i \in Clients(c)) ~> (i \in Clients(c) /\ conns[c].clients[i].promise # "pending")

\* C39's case: the connect failed with an error of the socket, and the client,
\* whose socket is open, was sent CONNECTION_FAILED
C39_Witness ==
  /\ Len(conns["c1"].clients) = 1
  /\ conns["c1"].clients[1].promise = "rejected"
  /\ conns["c1"].sock = "OPEN"
  /\ out["c1"] = <<ErrorFrame("socket hang up", "OPENAI_ERROR"),
                   ErrorFrame("Failed to start voice session", "CONNECTION_FAILED")>>

\* an auth.success frame has been sent on the connection
AuthSucceeded == \E k \in 1..Len(runLog) : HasType(runLog[k].sent, "auth.success")

\* C40: nothing is done upstream for a connection that has not authenticated:
\* a step that creates an upstream client (and calls its connect), sends a
\* frame upstream or sends session.ready comes after an auth.success frame of
\* the connection, and the connection has its subject.
C40_UpstreamNeedsAuth ==
  /\ [](\A c \in BridgeConns :
          Len(conns[c].clients) > 0 => (AuthSucceeded /\ conns[c].userId # NoUser))
  /\ [][\A c \in BridgeConns :
          (\/ Len(conns'[c].clients) > Len(conns[c].clients)
           \/ upOut'[c] # <<>>
           \/ HasType(out'[c], "session.ready"))
          => /\ AuthSucceeded
             /\ conns[c].userId # NoUser]_vars

\* C40's case: audio went upstream on a connection whose auth frame, its
\* first, had been answered with auth.success
C40_Witness ==
  /\ Len(runLog) >= 2
  /\ runLog[2].m.type = "auth"
  /\ runLog[2].sent = <<[type |-> "auth.success"]>>
  /\ conns["c1"].userId = "u1"
  /\ upOut["c1"] = <<[client |-> 1, type |-> "input_audio_buffer.append", audio |-> "a1"]>>
====
